---------------------------- MODULE Spec2Model ----------------------------
(***************************************************************************)
(* Scene timeline routing, playback clock and frame-index lookup of the    *)
(* audio visualizer (src/main.py, src/L_R.py,                              *)
(* src/visualizer_modules/scene_manager.py).                               *)
(*                                                                         *)
(* Time is measured on a fixed-point grid: one analysis hop (hop_length /  *)
(* sample_rate seconds) is HopTicks grid units, so times[k] = k * HopTicks *)
(* and the song's duration is a whole number of grid units.                *)
(***************************************************************************)
EXTENDS Integers, Sequences, FiniteSets, TLC

VARIABLES
    scenes,      \* SceneManager.scenes: the list of SceneEntry (the timeline)
    current,     \* SceneManager.current: the active scene, or None
    log,         \* the enter()/exit() calls made on scenes, in call order
    ret,         \* the value returned by the last get_scene_for_time call
    queries,     \* the times of the lookups made directly on the router
    pc,          \* position of main()
    variant,     \* which program runs: "main" (main.py) or "L_R" (L_R.py)
    duration,    \* features.duration
    ntimes,      \* len(features.times)
    wall,        \* the wall clock, time.time()
    start_time,  \* main(): start_time / start
    last_t,      \* main(): last_t
    dt,          \* main(): dt
    t,           \* main(): t, the song time of the current tick
    running,     \* main(): running
    idx,         \* main(): idx
    upd,         \* the last scene.update call: its receiver and its idx
    frames,      \* number of pygame.display.flip() calls
    window,      \* whether the pygame window exists
    audio,       \* state of the audio playback thread
    quit_pending,\* whether a pygame.QUIT event waits in the event queue
    probes,      \* the last two frame-index lookups, as <<t, idx>> pairs
    objs,        \* the live scene objects of the rebuilding driver: id -> fields
    raw,         \* feature extraction: the data the features are computed from
    features,    \* feature extraction: the feature table, once built
    futures,     \* feature extraction: task name -> "pending", "running", "done"
    results      \* feature extraction: the results dictionary, task name -> result

routerVars == <<scenes, current, log, ret, queries>>
clockVars == <<wall, start_time, last_t, dt, t>>
loopVars == <<running, idx, upd, frames>>
progVars == <<pc, variant, duration, ntimes, window, audio, quit_pending>>
extractVars == <<raw, features, futures, results>>
vars == <<scenes, current, log, ret, queries, pc, variant, duration, ntimes,
          wall, start_time, last_t, dt, t, running, idx, upd, frames, window,
          audio, quit_pending, probes, objs, raw, features, futures, results>>

-----------------------------------------------------------------------------
(* Bounds of the model *)

MaxT == 2          \* router harness: entry bounds range over 0..MaxT
MaxEntries == 2    \* router harness: longest timeline
MaxLookups == 3    \* router harness: lookups per behaviour
MaxDur == 5        \* longest song, in grid units
MaxStep == 2       \* largest wall-clock advance between two clock reads
MaxStall == 1      \* render ticks in which the clock reading does not advance
HopTicks == 2      \* grid units per analysis hop
Epoch == 3         \* wall-clock reading when the program starts
MaxPins == 3       \* scene-control harness: mode switches and pins per behaviour
MaxRebuilds == 2   \* rebuild harness: timeline rebuilds per behaviour
MaxKick == 2       \* rebuild harness: largest velocity change of one update
MaxRaw == 2        \* normalization harness: largest raw value, in units of 1e-10
MaxSamples == 2600 \* framing harness: longest waveform, in samples
MaxBin == 130      \* band harness: highest spectrogram row that carries energy
MaxLane == 9       \* chart harness: largest raw lane value of a chart file
MaxNoteTime == 2   \* chart harness: latest note time, in milliseconds
MaxSustain == 1    \* chart harness: longest sustain, in milliseconds
MaxAudio == 3      \* chart harness: longest audio_duration argument, in milliseconds
MaxWindow == 2     \* query harness: widest density window, in milliseconds
MaxThreshold == 2  \* query harness: largest is_note_at_time threshold, in milliseconds

None == "None"
Scenes == {"stripes", "brain"}

-----------------------------------------------------------------------------
(* SceneManager *)

\* The first entry, in list order, whose half-open interval contains tq;
\* 0 when the loop over self.scenes falls through.
RECURSIVE FirstMatchFrom(_, _, _)
FirstMatchFrom(entries, tq, i) ==
    IF i > Len(entries) THEN 0
    ELSE IF entries[i].start <= tq /\ tq < entries[i].end THEN i
    ELSE FirstMatchFrom(entries, tq, i + 1)

\* Variant: the interval test written closed at both ends.
RECURSIVE FirstMatchClosedFrom(_, _, _)
FirstMatchClosedFrom(entries, tq, i) ==
    IF i > Len(entries) THEN 0
    ELSE IF entries[i].start <= tq /\ tq <= entries[i].end THEN i
    ELSE FirstMatchClosedFrom(entries, tq, i + 1)

FirstMatch_ClosedEnd(entries, tq) == FirstMatchClosedFrom(entries, tq, 1)

FirstMatch(entries, tq) == FirstMatchFrom(entries, tq, 1)

\* Variant: the outgoing scene's exit() is not called.
Transition_NoExit(cur, s) == << <<"enter", s>> >>

\* Variant: exit() is called on the incoming scene instead of the outgoing one.
Transition_ExitTarget(cur, s) ==
    (IF cur # None THEN << <<"exit", s>> >> ELSE << >>) \o << <<"enter", s>> >>

\* The lifecycle calls made when the router moves from cur to scene s.
Transition(cur, s) ==
    (IF cur # None THEN << <<"exit", cur>> >> ELSE << >>) \o << <<"enter", s>> >>

\* Variant: the "is not" test is missing, every hit re-activates the scene.
get_scene_for_time_Reenter(tq) ==
    LET i == FirstMatch(scenes, tq) IN
    IF i = 0
    THEN /\ ret' = current
         /\ UNCHANGED <<current, log>>
    ELSE LET s == scenes[i].scene IN
         /\ log' = log \o Transition(current, s)
         /\ current' = s
         /\ ret' = s

\* Variant: a miss deactivates the current scene.
get_scene_for_time_MissDeactivates(tq) ==
    LET i == FirstMatch(scenes, tq) IN
    IF i = 0
    THEN /\ ret' = None
         /\ current' = None
         /\ log' = log \o (IF current # None THEN << <<"exit", current>> >> ELSE << >>)
    ELSE LET s == scenes[i].scene IN
         IF current # s
         THEN /\ log' = log \o Transition(current, s)
              /\ current' = s
              /\ ret' = s
         ELSE /\ ret' = s
              /\ UNCHANGED <<current, log>>

\* SceneManager.get_scene_for_time(tq) / SceneManager.get_scene(tq)
get_scene_for_time(tq) ==
    LET i == FirstMatch(scenes, tq) IN
    IF i = 0
    THEN /\ ret' = current
         /\ UNCHANGED <<current, log>>
    ELSE LET s == scenes[i].scene IN
         IF current # s
         THEN /\ log' = log \o Transition(current, s)
              /\ current' = s
              /\ ret' = s
         ELSE /\ ret' = s
              /\ UNCHANGED <<current, log>>


-----------------------------------------------------------------------------
(* Feature table and frame-index lookup *)

\* features.times: times[k] = k * hop_length / sr for k = 0 .. T-1
\* (a 1-based sequence here: Times(n)[k + 1] is times[k]).
Times(n) == [k \in 1..n |-> (k - 1) * HopTicks]

\* Number of analysis frames of a centered STFT over a waveform of d grid
\* units: S.shape[1] = 1 + len(y) // hop_length.
FrameCount(d) == 1 + (d \div HopTicks)

\* np.searchsorted(a, v), side 'left': binary search for the insertion point,
\* as a 0-based index in 0..len(a).
RECURSIVE BinarySearch(_, _, _, _)
BinarySearch(a, v, lo, hi) ==
    IF lo >= hi THEN lo
    ELSE LET mid == (lo + hi) \div 2 IN
         IF a[mid + 1] < v
         THEN BinarySearch(a, v, mid + 1, hi)
         ELSE BinarySearch(a, v, lo, mid)

\* Variant: the insertion point to the right of equal elements (side 'right').
RECURSIVE BinarySearchRight(_, _, _, _)
BinarySearchRight(a, v, lo, hi) ==
    IF lo >= hi THEN lo
    ELSE LET mid == (lo + hi) \div 2 IN
         IF a[mid + 1] <= v
         THEN BinarySearchRight(a, v, mid + 1, hi)
         ELSE BinarySearchRight(a, v, lo, mid)

searchsorted_Right(a, v) == BinarySearchRight(a, v, 0, Len(a))

searchsorted(a, v) == BinarySearch(a, v, 0, Len(a))

\* np.clip(x, lo, hi) = minimum(maximum(x, lo), hi)
clip(x, lo, hi) ==
    LET m == IF x < lo THEN lo ELSE x IN
    IF m > hi THEN hi ELSE m

\* Variant: the insertion point used without clamping.
FrameIndex_NoClip(n, tq) == searchsorted(Times(n), tq)

\* idx = int(np.clip(np.searchsorted(features.times, t), 0, len(times) - 1))
FrameIndex(n, tq) == clip(searchsorted(Times(n), tq), 0, n - 1)

-----------------------------------------------------------------------------
(* main(): construction *)

\* features.duration * 0.4 (main.py) and F.duration * 0.5 (L_R.py): the
\* product is rounded to the nearest representable value of the grid.
SplitPoint(v, d) ==
    IF v = "main" THEN (4 * d + 5) \div 10 ELSE (5 * d + 5) \div 10

\* Variant: the two entries compute their shared boundary differently.
BuildScenes_Mismatch(v, d) ==
    << [start |-> 0, end |-> (4 * d + 5) \div 10, scene |-> "stripes"],
       [start |-> (5 * d + 5) \div 10, end |-> d, scene |-> "brain"] >>

\* The timeline main() builds: [0, split) -> stripes, [split, duration) -> brain
BuildScenes(v, d) ==
    << [start |-> 0, end |-> SplitPoint(v, d), scene |-> "stripes"],
       [start |-> SplitPoint(v, d), end |-> d, scene |-> "brain"] >>

NoUpdate == [scene |-> None, idx |-> -1]

\* features = analyze_audio(AUDIO_PATH), returning normally
analyze_audio(d) ==
    /\ pc = "start"
    /\ pc' = "analyzed"
    /\ duration' = d
    /\ ntimes' = FrameCount(d)
    /\ UNCHANGED <<routerVars, clockVars, loopVars, variant, window, audio,
                   quit_pending, probes, objs, extractVars>>

\* analyze_audio raises (the audio file cannot be loaded): main() ends there
analyze_audio_raises ==
    /\ pc = "start"
    /\ pc' = "failed"
    /\ UNCHANGED <<routerVars, clockVars, loopVars, variant, duration, ntimes,
                   window, audio, quit_pending, probes, objs, extractVars>>

\* Variant: the window is opened before the analysis has returned.
CreateWindow_BeforeAnalysis ==
    /\ \/ pc = "start" /\ ~window /\ pc' = pc
       \/ pc = "analyzed" /\ pc' = "window"
    /\ window' = TRUE
    /\ UNCHANGED <<routerVars, clockVars, loopVars, variant, duration, ntimes,
                   audio, quit_pending, probes, objs, extractVars>>

\* pygame.init(); pygame.display.set_mode(WINDOW_SIZE); clock = Clock()
CreateWindow ==
    /\ pc = "analyzed"
    /\ pc' = "window"
    /\ window' = TRUE
    /\ UNCHANGED <<routerVars, clockVars, loopVars, variant, duration, ntimes,
                   audio, quit_pending, probes, objs, extractVars>>

\* the scenes, the timeline and manager = SceneManager(scenes)
BuildTimeline ==
    /\ pc = "window"
    /\ pc' = "built"
    /\ scenes' = BuildScenes(variant, duration)
    /\ current' = None
    /\ UNCHANGED <<log, ret, queries, clockVars, loopVars, variant, duration,
                   ntimes, window, audio, quit_pending, probes, objs, extractVars>>

\* audio_thread = threading.Thread(..., daemon=True); audio_thread.start()
StartAudio ==
    /\ pc = "built"
    /\ pc' = "audio_started"
    /\ audio' = "loading"
    /\ UNCHANGED <<routerVars, clockVars, loopVars, variant, duration, ntimes,
                   window, quit_pending, probes, objs, extractVars>>

\* start_time = time.time(); running = True; last_t = start_time (main.py)
\* start = time.time(); running = True (L_R.py)
SampleStart(d) ==
    /\ pc = "audio_started"
    /\ pc' = "loop"
    /\ wall' = wall + d
    /\ start_time' = wall'
    /\ last_t' = (IF variant = "main" THEN wall' ELSE last_t)
    /\ running' = TRUE
    /\ UNCHANGED <<routerVars, dt, t, idx, upd, frames, variant, duration,
                   ntimes, window, audio, quit_pending, probes, objs, extractVars>>

-----------------------------------------------------------------------------
(* The audio playback thread: play_audio_blocking / play_audio *)

\* y, sr = librosa.load(path); sd.play(y, sr)
AudioPlay ==
    /\ audio = "loading"
    /\ pc \notin {"done", "crashed"}
    /\ audio' = "playing"
    /\ UNCHANGED <<routerVars, clockVars, loopVars, pc, variant, duration,
                   ntimes, window, quit_pending, probes, objs, extractVars>>

\* sd.wait() returns: the thread ends
AudioFinish ==
    /\ audio = "playing"
    /\ pc \notin {"done", "crashed"}
    /\ audio' = "finished"
    /\ UNCHANGED <<routerVars, clockVars, loopVars, pc, variant, duration,
                   ntimes, window, quit_pending, probes, objs, extractVars>>

\* librosa.load or sd.play raises inside the thread (device unavailable)
AudioFail ==
    /\ audio = "loading"
    /\ pc \notin {"done", "crashed"}
    /\ audio' = "failed"
    /\ UNCHANGED <<routerVars, clockVars, loopVars, pc, variant, duration,
                   ntimes, window, quit_pending, probes, objs, extractVars>>


-----------------------------------------------------------------------------
(* main(): the render loop *)

\* The scene main() draws when the router returned r: main.py falls back to
\* scenes[0].scene when r is None, L_R.py uses r as it is.
SceneToDraw(v, r) ==
    IF r = None /\ v = "main" THEN scenes[1].scene ELSE r

\* Variant: song time measured from the previous tick instead of the origin.
SongTime_SinceLastTick(now, start) == now - last_t

\* t = last_t - start_time (main.py) / t = time.time() - start (L_R.py)
SongTime(now, start) == now - start

\* Variant: the end-of-song test is missing.
StillRunning_QuitOnly(quit, tt, d) == ~quit

\* The value of running at the end of an iteration: False after a QUIT event
\* and after t > features.duration.
StillRunning(quit, tt, d) == ~quit /\ ~(tt > d)

\* The user closes the window: pygame queues a QUIT event.
PostQuit ==
    /\ window
    /\ pc \in {"window", "built", "audio_started", "loop"}
    /\ ~quit_pending
    /\ quit_pending' = TRUE
    /\ UNCHANGED <<routerVars, clockVars, loopVars, pc, variant, duration,
                   ntimes, window, audio, probes, objs, extractVars>>

\* One iteration of "while running:".  d is the advance of the wall clock
\* since the previous reading.  pygame.event.get() drains the event queue.
\* Consecutive iterations are at least one frame period apart
\* (clock.tick(FPS)); only the first MaxStall readings may equal the
\* previous one.
Tick(d) ==
    /\ pc = "loop"
    /\ running
    /\ d = 0 => frames < MaxStall
    /\ wall' = wall + d
    /\ dt' = (IF variant = "main" THEN wall' - last_t ELSE d)
    /\ last_t' = (IF variant = "main" THEN wall' ELSE last_t)
    /\ t' = SongTime(wall', start_time)
    /\ quit_pending' = FALSE
    /\ running' = StillRunning(quit_pending, t', duration)
    /\ idx' = FrameIndex(ntimes, t')
    /\ get_scene_for_time(t')
    /\ LET scene == SceneToDraw(variant, ret') IN
       IF scene = None
       THEN \* scene.update on None raises AttributeError: main() dies
            /\ pc' = "crashed"
            /\ UNCHANGED <<upd, frames>>
       ELSE /\ upd' = [scene |-> scene, idx |-> idx']
            /\ frames' = frames + 1
            /\ pc' = pc
    /\ UNCHANGED <<scenes, queries, start_time, variant, duration, ntimes,
                   window, audio, probes, objs, extractVars>>

\* Variant: main() joins the audio thread before leaving.
LoopExit_Join ==
    /\ pc = "loop"
    /\ ~running
    /\ audio \in {"finished", "failed"}
    /\ pc' = "done"
    /\ window' = FALSE
    /\ UNCHANGED <<routerVars, clockVars, loopVars, variant, duration, ntimes,
                   audio, quit_pending, probes, objs, extractVars>>

\* "while running:" finds running False; pygame.quit()
LoopExit ==
    /\ pc = "loop"
    /\ ~running
    /\ pc' = "done"
    /\ window' = FALSE
    /\ UNCHANGED <<routerVars, clockVars, loopVars, variant, duration, ntimes,
                   audio, quit_pending, probes, objs, extractVars>>

RenderTick == \E d \in 0..MaxStep : Tick(d)

Init ==
    /\ variant \in {"main", "L_R"}
    /\ pc = "start"
    /\ scenes = << >>
    /\ current = None
    /\ log = << >>
    /\ ret = None
    /\ queries = << >>
    /\ duration = 0
    /\ ntimes = 0
    /\ wall = Epoch
    /\ start_time = 0
    /\ last_t = 0
    /\ dt = 0
    /\ t = 0
    /\ running = FALSE
    /\ idx = 0
    /\ upd = NoUpdate
    /\ frames = 0
    /\ window = FALSE
    /\ audio = "not_started"
    /\ quit_pending = FALSE
    /\ probes = << >>
    /\ objs = << >>
    /\ raw = << >>
    /\ features = << >>
    /\ futures = << >>
    /\ results = << >>

Next ==
    \/ \E d \in 0..MaxDur : analyze_audio(d)
    \/ analyze_audio_raises
    \/ CreateWindow
    \/ BuildTimeline
    \/ StartAudio
    \/ \E d \in 0..MaxStep : SampleStart(d)
    \/ PostQuit
    \/ RenderTick
    \/ LoopExit
    \/ AudioPlay
    \/ AudioFinish
    \/ AudioFail

Spec == Init /\ [][Next]_vars

\* The render loop keeps being scheduled: every iteration completes and the
\* next one starts while running holds.
LiveSpec == Init /\ [][Next]_vars /\ WF_vars(RenderTick) /\ WF_vars(LoopExit)

-----------------------------------------------------------------------------
(* A client of SceneManager: any timeline, lookups at any times in any order *)

Entry == {e \in [start : 0..MaxT, end : 0..MaxT, scene : Scenes] : e.start < e.end}

Timelines == UNION {[1..n -> Entry] : n \in 0..MaxEntries}

QueryTimes == (0 - 1)..MaxT

RouterInit ==
    /\ scenes \in Timelines
    /\ current = None
    /\ log = << >>
    /\ ret = None
    /\ queries = << >>
    /\ pc = "client"
    /\ variant = "client"
    /\ duration = 0
    /\ ntimes = 0
    /\ wall = Epoch
    /\ start_time = 0
    /\ last_t = 0
    /\ dt = 0
    /\ t = 0
    /\ running = FALSE
    /\ idx = 0
    /\ upd = NoUpdate
    /\ frames = 0
    /\ window = FALSE
    /\ audio = "not_started"
    /\ quit_pending = FALSE
    /\ probes = << >>
    /\ objs = << >>
    /\ raw = << >>
    /\ features = << >>
    /\ futures = << >>
    /\ results = << >>

\* manager.get_scene_for_time(tq), called by the client
Lookup(tq) ==
    /\ Len(queries) < MaxLookups
    /\ get_scene_for_time(tq)
    /\ queries' = Append(queries, tq)
    /\ UNCHANGED <<scenes, clockVars, loopVars, progVars, probes, objs, extractVars>>

RouterNext == \E tq \in QueryTimes : Lookup(tq)

RouterSpec == RouterInit /\ [][RouterNext]_vars

-----------------------------------------------------------------------------
(* Frame-index lookups on a feature table, at any times in any order *)

ProbeTimes == (0 - HopTicks)..(MaxDur + HopTicks)

IndexInit ==
    /\ duration \in 0..MaxDur
    /\ ntimes = FrameCount(duration)
    /\ probes = << >>
    /\ objs = << >>
    /\ raw = << >>
    /\ features = << >>
    /\ futures = << >>
    /\ results = << >>
    /\ scenes = << >>
    /\ current = None
    /\ log = << >>
    /\ ret = None
    /\ queries = << >>
    /\ pc = "probe"
    /\ variant = "probe"
    /\ wall = Epoch
    /\ start_time = 0
    /\ last_t = 0
    /\ dt = 0
    /\ t = 0
    /\ running = FALSE
    /\ idx = 0
    /\ upd = NoUpdate
    /\ frames = 0
    /\ window = FALSE
    /\ audio = "not_started"
    /\ quit_pending = FALSE

\* idx = clip(searchsorted(times, tq), 0, T - 1), for a probe time tq
Probe(tq) ==
    /\ t' = tq
    /\ idx' = FrameIndex(ntimes, tq)
    /\ probes' = (IF probes = << >> THEN << >> ELSE << probes[Len(probes)] >>)
                 \o << <<tq, idx'>> >>
    /\ UNCHANGED <<routerVars, progVars, wall, start_time, last_t, dt,
                   running, upd, frames, objs, extractVars>>

IndexNext == \E tq \in ProbeTimes : Probe(tq)

IndexSpec == IndexInit /\ [][IndexNext]_vars


-----------------------------------------------------------------------------
(* Properties of the scene router *)

\* The entries of the timeline whose interval [start, end) holds tq
Containing(tq) ==
    {i \in 1..Len(scenes) : scenes[i].start <= tq /\ tq < scenes[i].end}

\* The scene a lookup at tq resolves to: that of the earliest entry holding
\* tq, None when no entry holds it
Resolved(tq) ==
    IF Containing(tq) = {} THEN None
    ELSE scenes[CHOOSE i \in Containing(tq) : \A j \in Containing(tq) : i <= j].scene

\* The scenes the lookups made so far resolved to, misses left out
Hits ==
    SelectSeq([k \in 1..Len(queries) |-> Resolved(queries[k])],
              LAMBDA s : s # None)

\* q without the repetitions of an element right after itself
RECURSIVE Dedupe(_)
Dedupe(q) ==
    IF Len(q) <= 1 THEN q
    ELSE IF q[1] = q[2] THEN Dedupe(Tail(q))
    ELSE <<q[1]>> \o Dedupe(Tail(q))

\* enter a1, exit a1, enter a2, exit a2, ..., enter an
RECURSIVE Lifecycle(_)
Lifecycle(a) ==
    IF a = << >> THEN << >>
    ELSE IF Len(a) = 1 THEN << <<"enter", a[1]>> >>
    ELSE << <<"enter", a[1]>>, <<"exit", a[1]>> >> \o Lifecycle(Tail(a))

IsLookup == queries' # queries
LookupTime == queries'[Len(queries')]

\* C1: over any sequence of lookups, each lookup that resolves to a scene S
\* other than the active scene T makes exactly the calls T.exit(), S.enter()
\* in that order and makes S current; so the calls made so far are exactly
\* enter/exit pairs along the sequence of distinct consecutive scenes the
\* lookups resolved to, re-entries of an earlier scene included.
C1_ExitThenEnterPerTransition ==
    /\ log = Lifecycle(Dedupe(Hits))
    /\ current = (IF Hits = << >> THEN None ELSE Hits[Len(Hits)])

C1_Witness ==
    /\ Len(queries) = 3
    /\ log = << <<"enter", "stripes">>, <<"exit", "stripes">>,
                <<"enter", "brain">>, <<"exit", "brain">>,
                <<"enter", "stripes">> >>
    /\ current = "stripes"

\* The timeline [0, d/2) -> a, [d/2, d) -> b
HalfTimeline(d, a, b) ==
    << [start |-> 0, end |-> d \div 2, scene |-> a],
       [start |-> d \div 2, end |-> d, scene |-> b] >>

C2_Scenario ==
    \A d \in 1..MaxT : \A a \in Scenes : \A b \in Scenes \ {a} :
      (d % 2 = 0 /\ scenes = HalfTimeline(d, a, b)) =>
        /\ queries = <<0>> => (log = << <<"enter", a>> >> /\ ret = a)
        /\ (/\ Len(queries) >= 2
            /\ queries[1] = 0
            /\ queries[2] = d \div 2
            /\ \A k \in 3..Len(queries) :
                  d \div 2 <= queries[k] /\ queries[k] < d)
           => /\ log = << <<"enter", a>>, <<"exit", a>>, <<"enter", b>> >>
              /\ ret = b
              /\ current = b

C2_SameSceneStep ==
    (IsLookup /\ current # None /\ Resolved(LookupTime) = current)
        => /\ log' = log
           /\ current' = current
           /\ scenes' = scenes
           /\ ret' = current

\* C2: on the timeline [0,D/2) -> A, [D/2,D) -> B the first lookup at 0 calls
\* A.enter() only, a lookup at D/2 then calls A.exit(), B.enter(), and
\* further lookups in [D/2, D) return B and call nothing; in general a lookup
\* resolving to the active scene makes no call and changes no router state.
C2_NoCallsWhileSameScene == [](C2_Scenario) /\ [][C2_SameSceneStep]_vars

C2_Witness ==
    /\ scenes = HalfTimeline(2, "stripes", "brain")
    /\ queries = <<0, 1, 1>>
    /\ ret = "brain"
    /\ Len(log) = 3

\* C3: a lookup at a time no entry holds returns the active scene (None when
\* there is none), calls neither enter nor exit and leaves current unchanged.
C3_MissKeepsCurrent ==
    [][(IsLookup /\ Containing(LookupTime) = {})
          => (ret' = current /\ current' = current /\ log' = log)]_vars

C3_Witness ==
    /\ Len(queries) >= 2
    /\ Containing(queries[Len(queries)]) = {}
    /\ current # None
    /\ ret = current

\* C4: a lookup at tq returns, and makes current, the scene of the first
\* entry in list order with start <= tq < end: the start is inside the
\* interval, the end is not, and of several entries holding tq the earliest
\* in the list wins.
C4_FirstHalfOpenMatch ==
    queries # << >> =>
        LET tq == queries[Len(queries)]
            M == {i \in 1..Len(scenes) :
                     scenes[i].start <= tq /\ tq < scenes[i].end}
        IN  M # {} =>
              \E i \in M :
                 /\ \A j \in M : i <= j
                 /\ ret = scenes[i].scene
                 /\ current = scenes[i].scene

C4_Witness ==
    /\ scenes = << [start |-> 0, end |-> 1, scene |-> "brain"],
                   [start |-> 1, end |-> 2, scene |-> "stripes"] >>
    /\ queries = <<1>>
    /\ ret = "stripes"

\* The calls of the log made on scene s, in order
CallsOn(s) == SelectSeq(log, LAMBDA c : c[2] = s)

\* C5: after any lookups, the calls on each scene alternate enter, exit,
\* enter, ... starting with enter; the scene with one more enter than exit
\* is the router's current scene and every other scene has as many exits as
\* enters, so at most one scene is active.
C5_AtMostOneActive ==
    \A s \in Scenes :
        LET c == CallsOn(s) IN
        /\ \A k \in 1..Len(c) :
              c[k][1] = (IF k % 2 = 1 THEN "enter" ELSE "exit")
        /\ (Len(c) % 2 = 1) <=> (s = current)

C5_Witness ==
    /\ current = "brain"
    /\ Len(CallsOn("brain")) = 3
    /\ Len(CallsOn("stripes")) = 2

-----------------------------------------------------------------------------
(* Properties of main() *)

TimelineBuilt == pc \in {"built", "audio_started", "loop", "done", "crashed"}

\* C6: the timeline main() builds is contiguous, non-overlapping and covers
\* [0, duration): the first start is 0, the last end is duration, each end
\* is the next start, and every t in [0, duration) lies in exactly one
\* entry; for duration 0 every interval is empty.
C6_TimelineCoversDuration ==
    TimelineBuilt =>
        /\ Len(scenes) >= 1
        /\ scenes[1].start = 0
        /\ scenes[Len(scenes)].end = duration
        /\ \A i \in 1..(Len(scenes) - 1) : scenes[i].end = scenes[i + 1].start
        /\ \A i \in 1..Len(scenes) : scenes[i].start <= scenes[i].end
        /\ \A tq \in 0..(duration - 1) : Cardinality(Containing(tq)) = 1

C6_Witness ==
    /\ pc = "loop"
    /\ variant = "main"
    /\ duration = MaxDur
    /\ 0 < scenes[1].end
    /\ scenes[1].end < duration

\* C7: in every render tick the idx given to scene.update lies in
\* 0 .. T-1, T = len(times) >= 1, whatever the song time is.
C7_UpdateIndexInBounds ==
    /\ upd # NoUpdate => (0 <= upd.idx /\ upd.idx <= ntimes - 1)
    /\ (pc \in {"loop", "done", "crashed"} /\ ntimes >= 1)
          => (0 <= idx /\ idx <= ntimes - 1)

C7_Witness ==
    /\ upd # NoUpdate
    /\ frames >= 2
    /\ t > duration
    /\ ntimes >= 2
    /\ upd.idx = ntimes - 1

\* C8: idx(t) = clip(insertion point of t in times, 0, T-1) is a function
\* of t, monotonic in t, 0 for t < 0, T-1 for t > duration, and for t
\* within the grid the smallest i with times[i] >= t.
C8_FrameIndexMonotonicClamped ==
    /\ \A k \in 1..Len(probes) :
          LET tq == probes[k][1]
              i == probes[k][2]
          IN  /\ i \in 0..(ntimes - 1)
              /\ tq < 0 => i = 0
              /\ tq > duration => i = ntimes - 1
              /\ (0 <= tq /\ tq <= Times(ntimes)[ntimes])
                    => /\ Times(ntimes)[i + 1] >= tq
                       /\ \A j \in 0..(i - 1) : Times(ntimes)[j + 1] < tq
    /\ \A k, m \in 1..Len(probes) :
          /\ probes[k][1] < probes[m][1] => probes[k][2] <= probes[m][2]
          /\ probes[k][1] = probes[m][1] => probes[k][2] = probes[m][2]

C8_Witness ==
    /\ Len(probes) = 2
    /\ ntimes >= 3
    /\ probes[1][1] > duration
    /\ probes[1][2] = ntimes - 1
    /\ probes[2][1] < 0
    /\ probes[2][2] = 0

\* A step that is an iteration of the render loop
IsTick == pc = "loop" /\ (frames' # frames \/ pc' = "crashed")

\* C9: the render loop ends when t exceeds duration or a QUIT event is
\* seen: the iteration that sees either leaves running False, no further
\* iteration begins after it, and with the clock advancing and ticks
\* completing the loop ends even when no QUIT event ever arrives.
C9_LoopTerminates ==
    /\ []((pc = "loop" /\ t > duration) => ~running)
    /\ [][(IsTick /\ quit_pending) => ~running']_vars
    /\ [][(pc = "loop" /\ ~running)
            => UNCHANGED <<frames, t, idx, wall, upd, log, current, running>>]_vars
    /\ (pc = "loop") ~> (pc \in {"done", "crashed"})

C9_Witness ==
    /\ pc = "done"
    /\ frames >= 3
    /\ t > duration
    /\ ~quit_pending
    /\ duration >= 2

\* C10: start_time is sampled once, in the step right after the audio thread
\* is started, and never changes afterwards; every tick computes
\* t = now - start_time, so t >= 0 and t never decreases; no step of the
\* audio thread changes anything t is computed from.
C10_OpenLoopClock ==
    /\ [][start_time' # start_time
            => /\ pc = "audio_started"
               /\ pc' = "loop"
               /\ audio # "not_started"
               /\ start_time' = wall']_vars
    /\ [][IsTick => (t' = wall' - start_time /\ t' >= 0 /\ t' >= t)]_vars
    /\ [][audio' # audio => UNCHANGED <<t, start_time, last_t, wall>>]_vars
    /\ []((pc \in {"loop", "done"} /\ frames > 0) => t = wall - start_time)

C10_Witness ==
    /\ pc = "loop"
    /\ frames >= 2
    /\ t > 0
    /\ t = wall - start_time
    /\ audio = "failed"

-----------------------------------------------------------------------------
(* Properties of the audio thread *)

AudioStep == audio' # audio /\ audio # "not_started"

\* C11: audio playback is fire and forget: once the thread is started the
\* render loop never waits for it (a tick is possible whenever running
\* holds, leaving the loop whenever it does not, whatever the thread's
\* state), never joins or cancels it (no step of main() changes the
\* thread's state), and a step of the thread, finishing and failing
\* included, changes nothing the render loop reads or writes.
C11_AudioFireAndForget ==
    /\ []((pc = "loop" /\ running) => ENABLED RenderTick)
    /\ []((pc = "loop" /\ ~running) => ENABLED LoopExit)
    /\ [][AudioStep
            => UNCHANGED <<routerVars, clockVars, loopVars, pc, variant,
                           duration, ntimes, window, quit_pending>>]_vars
    /\ [][(audio # "not_started" /\ pc' # pc) => audio' = audio]_vars
    /\ [][IsTick => audio' = audio]_vars

\* the loop has ended while playback still runs: the thread was not joined
C11_Witness ==
    /\ pc = "done"
    /\ audio = "playing"
    /\ frames >= 2

-----------------------------------------------------------------------------
(* Properties of start-up *)

\* C12: feature extraction has returned before the window exists, before
\* the audio thread is started and before the first render tick; when it
\* raises, the program ends with no window created, no audio thread started
\* and no scene activated.
C12_ExtractionBeforeEverything ==
    /\ (window \/ audio # "not_started" \/ frames > 0 \/ log # << >>
            \/ upd # NoUpdate \/ scenes # << >>)
          => /\ pc \notin {"start", "failed"}
             /\ ntimes = FrameCount(duration)
             /\ ntimes >= 1
    /\ pc = "failed"
          => /\ ~window
             /\ audio = "not_started"
             /\ current = None
             /\ log = << >>
             /\ frames = 0
             /\ ~ENABLED Next

C12_Witness ==
    /\ pc = "failed"
    /\ ~window
    /\ audio = "not_started"

-----------------------------------------------------------------------------
(* Manual scene selection.  The driver that offers it is not among the     *)
(* sources; its control is modelled from the specification's section 4.4   *)
(* on top of SceneManager: pc is the driver's mode, "auto" or "manual", t  *)
(* the song time, frames the number of pins and mode switches made.        *)

OverrideInit ==
    /\ duration \in 1..MaxDur
    /\ \E v \in {"main", "L_R"} : scenes = BuildScenes(v, duration)
    /\ pc = "auto"
    /\ t = 0
    /\ current = None
    /\ log = << >>
    /\ ret = None
    /\ queries = << >>
    /\ variant = "driver"
    /\ ntimes = FrameCount(duration)
    /\ wall = Epoch
    /\ start_time = 0
    /\ last_t = 0
    /\ dt = 0
    /\ running = TRUE
    /\ idx = 0
    /\ upd = NoUpdate
    /\ frames = 0
    /\ window = TRUE
    /\ audio = "not_started"
    /\ quit_pending = FALSE
    /\ probes = << >>
    /\ objs = << >>
    /\ raw = << >>
    /\ features = << >>
    /\ futures = << >>
    /\ results = << >>

\* A render tick in automatic mode: the time-based lookup selects the scene
AutoTick(d) ==
    /\ pc = "auto"
    /\ t <= duration
    /\ t' = t + d
    /\ get_scene_for_time(t')
    /\ UNCHANGED <<scenes, queries, pc, variant, duration, ntimes, wall,
                   start_time, last_t, dt, running, idx, upd, frames, window,
                   audio, quit_pending, probes, objs, extractVars>>

\* A render tick in manual mode: the lookup is bypassed, the pinned scene
\* stays active
ManualTick(d) ==
    /\ pc = "manual"
    /\ t <= duration
    /\ t' = t + d
    /\ ret' = current
    /\ UNCHANGED <<scenes, current, log, queries, pc, variant, duration,
                   ntimes, wall, start_time, last_t, dt, running, idx, upd,
                   frames, window, audio, quit_pending, probes, objs, extractVars>>

\* The control pins entry i's scene (entering manual mode, or advancing to
\* another scene within it), with the exit/enter contract of a transition
PinScene(i) ==
    /\ frames < MaxPins
    /\ frames' = frames + 1
    /\ pc' = "manual"
    /\ LET s == scenes[i].scene IN
       /\ current' = s
       /\ ret' = s
       /\ log' = (IF current # s THEN log \o Transition(current, s) ELSE log)
    /\ UNCHANGED <<scenes, queries, variant, duration, ntimes, clockVars,
                   running, idx, upd, window, audio, quit_pending, probes, objs, extractVars>>

\* The control switches back to automatic mode: the router re-synchronizes
\* to the scene the time-based lookup selects for the current t
ResumeAuto ==
    /\ pc = "manual"
    /\ frames < MaxPins
    /\ frames' = frames + 1
    /\ pc' = "auto"
    /\ get_scene_for_time(t)
    /\ UNCHANGED <<scenes, queries, variant, duration, ntimes, clockVars,
                   running, idx, upd, window, audio, quit_pending, probes, objs, extractVars>>

OverrideNext ==
    \/ \E d \in 1..MaxStep : AutoTick(d)
    \/ \E d \in 1..MaxStep : ManualTick(d)
    \/ \E i \in 1..Len(scenes) : PinScene(i)
    \/ ResumeAuto

OverrideSpec == OverrideInit /\ [][OverrideNext]_vars

\* C13: a control can pin a scene whatever the time-based lookup selects;
\* while a scene is pinned, song time moving across interval boundaries
\* makes no enter or exit call and leaves the pinned scene active; switching
\* back to automatic mode makes the scene the lookup selects for the
\* current t active, calling exit on the pinned scene and then enter on the
\* selected one exactly once, and nothing when they are the same scene.
C13_ManualOverride ==
    /\ [](pc = "manual" => (current # None /\ ret = current))
    /\ [][(pc = "manual" /\ pc' = "manual" /\ t' # t)
            => UNCHANGED <<current, log>>]_vars
    /\ [][(pc = "manual" /\ pc' = "auto")
            => LET s == Resolved(t) IN
               IF s = None \/ s = current
               THEN log' = log /\ current' = current /\ ret' = current
               ELSE /\ log' = log \o << <<"exit", current>>, <<"enter", s>> >>
                    /\ current' = s
                    /\ ret' = s]_vars

\* back in automatic mode after brain was pinned during the stripes interval
C13_Witness ==
    /\ pc = "auto"
    /\ current = "stripes"
    /\ t >= 2
    /\ log = << <<"enter", "stripes">>, <<"exit", "stripes">>,
                <<"enter", "brain">>, <<"exit", "brain">>,
                <<"enter", "stripes">> >>

-----------------------------------------------------------------------------
(* Scene objects: BeatSlicerScene.  One panel stands for the twelve; its   *)
(* offset and velocity are integers, dt * 60 is one frame, and the onset   *)
(* trigger plus the random jitter of an update is a velocity change k.     *)

\* BeatSlicerScene.__init__: panels = [], panel_offsets and
\* panel_velocities all 0.0
BeatSlicerInit == [panels |-> FALSE, offset |-> 0, velocity |-> 0]

\* BeatSlicerScene.enter: builds the panel rectangles (and nothing else)
BeatSlicerEnter(o) == [o EXCEPT !.panels = TRUE]

\* velocity *= 0.88, rounded towards zero
Damp(v) == IF v >= 0 THEN (v * 88) \div 100 ELSE 0 - (((0 - v) * 88) \div 100)

\* BeatSlicerScene.update: the velocity takes the kick, the offset moves by
\* the velocity, the velocity is damped
BeatSlicerUpdate(o, k) ==
    [o EXCEPT !.offset = o.offset + (o.velocity + k),
              !.velocity = Damp(o.velocity + k)]

Kicks == {0 - MaxKick, 0, MaxKick}

-----------------------------------------------------------------------------
(* Rebuilding the timeline.  The driver that rebuilds on a resize is not   *)
(* among the sources; the rebuild is modelled from the specification's     *)
(* sections 3 and 4.4 as a repetition of main()'s construction of scenes   *)
(* and manager.  frames counts the rebuilds; the scene objects of build g  *)
(* are named "<scene>#<g>".                                                *)

InstanceId(name, g) == name \o "#" \o ToString(g)

\* scenes = [SceneEntry(...), ...] over freshly constructed scene objects
InstanceScenes(v, d, g) ==
    [i \in 1..Len(BuildScenes(v, d)) |->
        [BuildScenes(v, d)[i] EXCEPT !.scene = InstanceId(@, g)]]

\* Variant: a rebuild hands the active scene's fields to the new objects.
NewObjects_Carry(g) ==
    [id \in {InstanceId(s, g) : s \in Scenes} |->
        IF g > 0 /\ current # None THEN objs[current] ELSE BeatSlicerInit]

\* the objects constructed for build g, each in its __init__ state
NewObjects(g) ==
    [id \in {InstanceId(s, g) : s \in Scenes} |-> BeatSlicerInit]

RebuildInit ==
    /\ duration \in 1..MaxDur
    /\ variant \in {"main", "L_R"}
    /\ scenes = InstanceScenes(variant, duration, 0)
    /\ objs = NewObjects(0)
    /\ raw = << >>
    /\ features = << >>
    /\ futures = << >>
    /\ results = << >>
    /\ pc = "loop"
    /\ t = 0
    /\ current = None
    /\ log = << >>
    /\ ret = None
    /\ queries = << >>
    /\ ntimes = FrameCount(duration)
    /\ wall = Epoch
    /\ start_time = 0
    /\ last_t = 0
    /\ dt = 0
    /\ running = TRUE
    /\ idx = 0
    /\ upd = NoUpdate
    /\ frames = 0
    /\ window = TRUE
    /\ audio = "not_started"
    /\ quit_pending = FALSE
    /\ probes = << >>

\* A render tick: lookup (enter() on a newly active scene), then
\* scene.update.  upd.before is the scene's state when update is called.
SceneTick(d, k) ==
    /\ t <= duration
    /\ t' = t + d
    /\ idx' = FrameIndex(ntimes, t')
    /\ get_scene_for_time(t')
    /\ LET s == ret'
           entered == IF current' # current
                      THEN [objs EXCEPT ![s] = BeatSlicerEnter(@)]
                      ELSE objs
       IN  IF s = None
           THEN UNCHANGED <<objs, upd>>
           ELSE /\ upd' = [scene |-> s, idx |-> idx', before |-> entered[s]]
                /\ objs' = [entered EXCEPT ![s] = BeatSlicerUpdate(@, k)]
    /\ UNCHANGED <<scenes, queries, pc, variant, duration, ntimes, wall,
                   start_time, last_t, dt, running, frames, window, audio,
                   quit_pending, probes, extractVars>>

\* The window is resized: scenes and manager are built again
Rebuild ==
    /\ frames < MaxRebuilds
    /\ frames' = frames + 1
    /\ scenes' = InstanceScenes(variant, duration, frames + 1)
    /\ objs' = NewObjects(frames + 1)
    /\ current' = None
    /\ ret' = None
    /\ UNCHANGED <<log, queries, pc, variant, duration, ntimes, clockVars,
                   running, idx, upd, window, audio, quit_pending, probes,
                   extractVars>>

RebuildNext ==
    \/ \E d \in 1..MaxStep, k \in Kicks : SceneTick(d, k)
    \/ Rebuild

RebuildSpec == RebuildInit /\ [][RebuildNext]_vars

\* C14: after a rebuild only the newly built scene objects are referenced
\* (timeline, router and object store hold none of the earlier ones), and a
\* scene that becomes active gets its first update in the state enter()
\* leaves a fresh object in: panels built, offset and velocity zero,
\* whatever the updates before the rebuild did.
C14_RebuildResetsSceneState ==
    /\ [](/\ \A i \in 1..Len(scenes) : scenes[i].scene \in DOMAIN NewObjects(frames)
          /\ DOMAIN objs = DOMAIN NewObjects(frames)
          /\ current \in DOMAIN objs \cup {None})
    /\ [][(current' # current /\ current' # None)
            => /\ upd'.scene = current'
               /\ upd'.before = [panels |-> TRUE, offset |-> 0, velocity |-> 0]]_vars
    /\ [][frames' # frames => (current' = None /\ log' = log)]_vars

\* the second build's brain becomes active after the first build's brain
\* had been animated
C14_Witness ==
    /\ frames = 1
    /\ current = InstanceId("brain", 1)
    /\ upd.scene = current
    /\ upd.before = [panels |-> TRUE, offset |-> 0, velocity |-> 0]
    /\ objs[current].offset # 0
    /\ \E n \in 1..Len(log) : log[n] = <<"enter", InstanceId("brain", 0)>>

-----------------------------------------------------------------------------
(* Normalization.  Raw values lie on a grid whose unit is 1e-10, the       *)
(* epsilon of visualizer_modules' norm; the grid is bounded by MaxRaw, far *)
(* below 1.0 = 10^10 units.  A quotient x / m is kept exact as the pair    *)
(* num / den (unit "one"); a value returned undivided stays a number of    *)
(* grid units (unit "grid").                                               *)

NormEps == 1       \* 1e-10 in grid units

Quot(x, mx) == [num |-> x, den |-> mx, unit |-> "one"]
Undivided(x) == [num |-> x, den |-> 1, unit |-> "grid"]

SeqMax(x) == CHOOSE v \in {x[i] : i \in 1..Len(x)} :
                 \A i \in 1..Len(x) : x[i] <= v

\* Variant: the guard of main.py and L_R.py in visualizer_modules
norm_GuardAtZero(x) ==
    IF SeqMax(x) > 0
    THEN [i \in 1..Len(x) |-> Quot(x[i], SeqMax(x))]
    ELSE [i \in 1..Len(x) |-> Undivided(x[i])]

\* visualizer_modules: m = x.max(); return x / m if m > 1e-10 else x
norm(x) ==
    IF SeqMax(x) > NormEps
    THEN [i \in 1..Len(x) |-> Quot(x[i], SeqMax(x))]
    ELSE [i \in 1..Len(x) |-> Undivided(x[i])]

\* main.py: m = np.max(x); return x / m if m > 0 else x
main_norm(x) ==
    IF SeqMax(x) > 0
    THEN [i \in 1..Len(x) |-> Quot(x[i], SeqMax(x))]
    ELSE [i \in 1..Len(x) |-> Undivided(x[i])]

\* L_R.py: m = x.max(); return x / m if m > 0 else x
N(x) ==
    IF SeqMax(x) > 0
    THEN [i \in 1..Len(x) |-> Quot(x[i], SeqMax(x))]
    ELSE [i \in 1..Len(x) |-> Undivided(x[i])]

\* np.diff(x, prepend=x[:1]): first element 0, then successive differences
diff_prepend(x) == [i \in 1..Len(x) |-> IF i = 1 THEN 0 ELSE x[i] - x[i - 1]]

\* Magnitude-derived series (rms, bands, onset) are non-negative; the mean
\* of the MFCC coefficients is signed.  Series have three frames.
Magnitudes == 0..MaxRaw
Coefficients == (0 - MaxRaw)..MaxRaw
MagnitudeSeries == Magnitudes \X Magnitudes \X Magnitudes
CoefficientSeries == Coefficients \X Coefficients \X Coefficients

RawTables(v) ==
    IF v = "modules"
    THEN [rms : MagnitudeSeries, mfcc : CoefficientSeries]
    ELSE [rms : MagnitudeSeries, onset : MagnitudeSeries]

\* The series each normalized feature is computed from.  The mean over the
\* coefficients of the MFCC differences is the difference of the means.
Unnormalized(v, r) ==
    IF v = "modules"
    THEN [rms |-> r.rms, mfcc |-> r.mfcc, mfcc_delta |-> diff_prepend(r.mfcc)]
    ELSE [rms |-> r.rms, onset |-> r.onset]

\* the normalized series of the returned table
NormalizedTable(v, r) ==
    [k \in DOMAIN Unnormalized(v, r) |->
        IF v = "modules" THEN norm(Unnormalized(v, r)[k])
        ELSE IF v = "main" THEN main_norm(Unnormalized(v, r)[k])
        ELSE N(Unnormalized(v, r)[k])]

NormInit ==
    /\ variant \in {"modules", "main", "L_R"}
    /\ raw \in RawTables(variant)
    /\ features = << >>
    /\ pc = "loaded"
    /\ futures = << >>
    /\ results = << >>
    /\ scenes = << >>
    /\ current = None
    /\ log = << >>
    /\ ret = None
    /\ queries = << >>
    /\ duration = 0
    /\ ntimes = 0
    /\ wall = Epoch
    /\ start_time = 0
    /\ last_t = 0
    /\ dt = 0
    /\ t = 0
    /\ running = FALSE
    /\ idx = 0
    /\ upd = NoUpdate
    /\ frames = 0
    /\ window = FALSE
    /\ audio = "not_started"
    /\ quit_pending = FALSE
    /\ probes = << >>
    /\ objs = << >>

\* analyze_audio normalizes every series and returns the table
Normalize ==
    /\ pc = "loaded"
    /\ pc' = "normalized"
    /\ features' = NormalizedTable(variant, raw)
    /\ UNCHANGED <<routerVars, clockVars, loopVars, variant, duration, ntimes,
                   window, audio, quit_pending, probes, objs, raw, futures,
                   results>>

\* analyze_audio on a signal that differs in one value of one raw series
Reanalyze(k, i, x) ==
    /\ pc = "normalized"
    /\ k \in DOMAIN raw
    /\ [raw EXCEPT ![k][i] = x] \in RawTables(variant)
    /\ raw' = [raw EXCEPT ![k][i] = x]
    /\ features' = NormalizedTable(variant, raw')
    /\ UNCHANGED <<routerVars, clockVars, loopVars, progVars, probes, objs,
                   futures, results>>

NormNext ==
    \/ Normalize
    \/ \E k \in {"rms", "mfcc", "onset"}, i \in 1..3, x \in Coefficients :
           Reanalyze(k, i, x)

NormSpec == NormInit /\ [][NormNext]_vars

Epsilon(v) == IF v = "modules" THEN NormEps ELSE 0

\* the value lies in [0, 1]; MaxRaw grid units are below 1.0
InUnitInterval(q) ==
    /\ q.num >= 0
    /\ q.unit = "one" => q.num <= q.den
IsOne(q) == q.unit = "one" /\ q.num = q.den
IsZero(q) == q.num = 0

\* C15: every normalized series of visualizer_modules' table has all its
\* values in [0, 1] and a maximum of 0 (all-zero series) or 1, the MFCC mean
\* and delta series included.
C15_NormalizedInUnitInterval ==
    (pc = "normalized" /\ variant = "modules") =>
        \A k \in DOMAIN features :
            /\ \A i \in 1..Len(features[k]) : InUnitInterval(features[k][i])
            /\ \/ \A i \in 1..Len(features[k]) : IsZero(features[k][i])
               \/ \E i \in 1..Len(features[k]) : IsOne(features[k][i])

\* C15, what the code does guarantee: a magnitude series whose maximum
\* exceeds the epsilon is scaled into [0, 1] with maximum 1, and an all-zero
\* series stays all-zero.
C15_ScaledMagnitudesInUnitInterval ==
    (pc = "normalized" /\ variant = "modules"
        /\ (SeqMax(raw.rms) > NormEps \/ SeqMax(raw.rms) = 0)) =>
            /\ \A i \in 1..Len(features.rms) : InUnitInterval(features.rms[i])
            /\ \/ \A i \in 1..Len(features.rms) : IsZero(features.rms[i])
               \/ \E i \in 1..Len(features.rms) : IsOne(features.rms[i])

\* a signed MFCC mean series with a maximum above the epsilon was normalized
C15_Witness ==
    /\ pc = "normalized"
    /\ variant = "modules"
    /\ SeqMax(raw.mfcc) > NormEps
    /\ \E i \in 1..Len(raw.mfcc) : raw.mfcc[i] < 0
    /\ SeqMax(raw.rms) > NormEps
    /\ \E i \in 1..Len(features.rms) : IsOne(features.rms[i])

\* C16: a normalized series is series[i] / max(series) for every i when
\* max(series) exceeds the extractor's epsilon and the series itself,
\* undivided, otherwise; and re-analysing with one raw series changed leaves
\* the normalized values of a series computed from unchanged data as they
\* were.
C16_NormalizeContract ==
    /\ [](pc = "normalized" =>
            \A k \in DOMAIN features :
                LET x == Unnormalized(variant, raw)[k]
                IN  \A i \in 1..Len(x) :
                        features[k][i] =
                            IF SeqMax(x) > Epsilon(variant)
                            THEN [num |-> x[i], den |-> SeqMax(x), unit |-> "one"]
                            ELSE [num |-> x[i], den |-> 1, unit |-> "grid"])
    /\ [][(pc = "normalized" /\ pc' = "normalized") =>
            \A k \in DOMAIN features :
                Unnormalized(variant, raw')[k] = Unnormalized(variant, raw)[k]
                    => features'[k] = features[k]]_vars

\* one table holds a series at the epsilon (returned undivided), an
\* all-zero series and a scaled one
C16_Witness ==
    /\ pc = "normalized"
    /\ variant = "modules"
    /\ SeqMax(raw.rms) = NormEps
    /\ features.rms = [i \in 1..3 |-> [num |-> raw.rms[i], den |-> 1, unit |-> "grid"]]
    /\ SeqMax(raw.mfcc) > NormEps
    /\ \A i \in 1..3 : features.mfcc_delta[i].num = 0

-----------------------------------------------------------------------------
(* Framing: how many frames each series of visualizer_modules' table has,  *)
(* for a waveform of n samples.                                            *)

sr == 22050
hop_length == 512
n_fft == 2048

\* librosa.util.frame: the number of frames of frame_length = n_fft samples,
\* hop_length apart, that fit into len samples
frame_count(len) == 1 + ((len - n_fft) \div hop_length)

\* librosa.stft, centred (the default): the signal is padded by n_fft // 2
\* on both sides, then framed.  The mel spectrogram of librosa.feature.mfcc
\* is framed the same way.
stft_frames(n) == frame_count(n + 2 * (n_fft \div 2))

\* librosa.feature.zero_crossing_rate(y, hop_length, center=False): the
\* signal is framed unpadded
zcr_frames(n) == frame_count(n)

\* times = np.arange(n_frames) * hop_length / sr, as numerators over sr;
\* times[k] of the source is times_of(n)[k + 1]
times_of(n) == [k \in 1..stft_frames(n) |-> (k - 1) * hop_length]

PerFrameSeries ==
    {"rms", "bass", "mid", "treble", "onset", "spectral_centroid",
     "spectral_rolloff", "spectral_flatness", "spectral_bandwidth",
     "spectral_contrast", "tempogram", "harmonic", "percussive", "chroma",
     "tonnetz", "zero_crossing_rate", "sub_bass", "low_mid", "high_mid",
     "presence", "brilliance", "mfcc", "mfcc_delta", "mfcc_delta2",
     "loudness", "novelty", "spectral_flux"}

\* the number of elements of a series of the returned table
SeriesLength(name, n) ==
    IF name = "zero_crossing_rate" THEN zcr_frames(n) ELSE stft_frames(n)

FramingInit ==
    /\ raw \in [samples : 1..MaxSamples]
    /\ features = << >>
    /\ pc = "loaded"
    /\ variant = "modules"
    /\ futures = << >>
    /\ results = << >>
    /\ scenes = << >>
    /\ current = None
    /\ log = << >>
    /\ ret = None
    /\ queries = << >>
    /\ duration = 0
    /\ ntimes = 0
    /\ wall = Epoch
    /\ start_time = 0
    /\ last_t = 0
    /\ dt = 0
    /\ t = 0
    /\ running = FALSE
    /\ idx = 0
    /\ upd = NoUpdate
    /\ frames = 0
    /\ window = FALSE
    /\ audio = "not_started"
    /\ quit_pending = FALSE
    /\ probes = << >>
    /\ objs = << >>

\* analyze_audio returns the table
ExtractFrames ==
    /\ pc = "loaded"
    /\ raw.samples >= n_fft
    /\ pc' = "extracted"
    /\ ntimes' = stft_frames(raw.samples)
    /\ features' = [times |-> times_of(raw.samples),
                    len |-> [name \in PerFrameSeries |->
                                SeriesLength(name, raw.samples)]]
    /\ UNCHANGED <<routerVars, clockVars, loopVars, variant, duration, window,
                   audio, quit_pending, probes, objs, raw, futures, results>>

\* a waveform shorter than one frame: framing it unpadded raises
ExtractFramesRaises ==
    /\ pc = "loaded"
    /\ raw.samples < n_fft
    /\ pc' = "failed"
    /\ UNCHANGED <<routerVars, clockVars, loopVars, variant, duration, ntimes,
                   window, audio, quit_pending, probes, objs, extractVars>>

FramingNext == ExtractFrames \/ ExtractFramesRaises

FramingSpec == FramingInit /\ [][FramingNext]_vars

\* C17: in the returned table times[k] = k * hop_length / sr, strictly
\* increasing from times[0] = 0, and every per-frame series, the
\* zero-crossing rate and the MFCC series included, has exactly len(times)
\* elements.
C17_EverySeriesHasTFrames ==
    pc = "extracted" =>
        /\ \A k \in 1..Len(features.times) :
               features.times[k] = (k - 1) * 512
        /\ \A k \in 2..Len(features.times) :
               features.times[k - 1] < features.times[k]
        /\ \A name \in DOMAIN features.len :
               features.len[name] = Len(features.times)

\* C17, what the code does guarantee: the time axis, and T elements in each
\* series other than the zero-crossing rate, which has four frames fewer.
C17_SpectrogramSeriesHaveTFrames ==
    pc = "extracted" =>
        /\ Len(features.times) = 1 + (raw.samples \div 512)
        /\ \A k \in 1..Len(features.times) :
               features.times[k] = (k - 1) * 512
        /\ \A k \in 2..Len(features.times) :
               features.times[k - 1] < features.times[k]
        /\ \A name \in DOMAIN features.len \ {"zero_crossing_rate"} :
               features.len[name] = Len(features.times)
        /\ features.len["zero_crossing_rate"] = Len(features.times) - 4

\* a table of six frames was returned
C17_Witness ==
    /\ pc = "extracted"
    /\ Len(features.times) = 6
    /\ features.len["mfcc"] = 6
    /\ features.len["zero_crossing_rate"] = 2

-----------------------------------------------------------------------------
(* Band energies.  Row k of the spectrogram has centre frequency           *)
(* k * rate / n_fft, k = 0 .. n_fft / 2; comparisons with a band edge are  *)
(* made exactly, multiplied through by n_fft.  The spectrogram has two     *)
(* frames and is sparse: it is given by its non-zero rows, here one row    *)
(* (a steady tone) that sounds in the first frame only.                    *)

Rows == 0..(n_fft \div 2)

\* visualizer_modules resamples to sr; main.py and L_R.py keep the file's rate
SampleRates(v) == IF v = "modules" THEN {sr} ELSE {2000, 32000, 44100}

\* the band edges of each extractor, as <<name, fmin, fmax>>
Bands(v, rate) ==
    IF v = "modules"
    THEN {<<"bass", 20, 150>>, <<"mid", 150, 2000>>, <<"treble", 2000, 8000>>,
          <<"sub_bass", 20, 60>>, <<"low_mid", 250, 500>>,
          <<"high_mid", 2000, 4000>>, <<"presence", 4000, 6000>>,
          <<"brilliance", 6000, rate \div 2>>}
    ELSE {<<"bass", 20, 150>>, <<"mid", 150, 2000>>, <<"treble", 2000, 8000>>}

\* the rows selected for a band: (freqs >= fmin) & (freqs < fmax) in
\* visualizer_modules and main.py, freqs <= fmax in L_R.py
mask(v, rate, fmin, fmax) ==
    {k \in Rows :
        /\ k * rate >= fmin * n_fft
        /\ IF v = "L_R" THEN k * rate <= fmax * n_fft
                        ELSE k * rate < fmax * n_fft}

\* the spectrogram's non-zero rows: row -> magnitudes of the two frames
Spectrogram(r) == (r.tone :> <<r.amp, 0>>)

RECURSIVE ColumnSum(_, _, _)
ColumnSum(S, rows, j) ==
    IF rows = {} THEN 0
    ELSE LET k == CHOOSE x \in rows : TRUE
         IN  S[k][j] + ColumnSum(S, rows \ {k}, j)

\* S[mask].mean(axis=0), or np.zeros(n_frames) when the mask selects no row
band_energy(S, rows) ==
    IF rows = {}
    THEN [j \in 1..2 |-> Quot(0, 1)]
    ELSE [j \in 1..2 |->
            Quot(ColumnSum(S, rows \cap DOMAIN S, j), Cardinality(rows))]

BandInit ==
    /\ variant \in {"modules", "main", "L_R"}
    /\ raw \in [rate : SampleRates(variant), tone : 0..MaxBin, amp : 1..MaxRaw]
    /\ features = << >>
    /\ pc = "loaded"
    /\ futures = << >>
    /\ results = << >>
    /\ scenes = << >>
    /\ current = None
    /\ log = << >>
    /\ ret = None
    /\ queries = << >>
    /\ duration = 0
    /\ ntimes = 0
    /\ wall = Epoch
    /\ start_time = 0
    /\ last_t = 0
    /\ dt = 0
    /\ t = 0
    /\ running = FALSE
    /\ idx = 0
    /\ upd = NoUpdate
    /\ frames = 0
    /\ window = FALSE
    /\ audio = "not_started"
    /\ quit_pending = FALSE
    /\ probes = << >>
    /\ objs = << >>

\* the band energies of every band of the extractor, before normalization
ExtractBands ==
    /\ pc = "loaded"
    /\ pc' = "extracted"
    /\ features' =
         [name \in {b[1] : b \in Bands(variant, raw.rate)} |->
            LET b == CHOOSE c \in Bands(variant, raw.rate) : c[1] = name
            IN  band_energy(Spectrogram(raw),
                            mask(variant, raw.rate, b[2], b[3]))]
    /\ UNCHANGED <<routerVars, clockVars, loopVars, variant, duration, ntimes,
                   window, audio, quit_pending, probes, objs, raw, futures,
                   results>>

\* the next file is analysed
NextFile ==
    /\ pc = "extracted"
    /\ pc' = "loaded"
    /\ features' = << >>
    /\ raw' \in [rate : SampleRates(variant), tone : {raw.tone},
                 amp : 1..MaxRaw]
    /\ UNCHANGED <<routerVars, clockVars, loopVars, variant, duration, ntimes,
                   window, audio, quit_pending, probes, objs, futures,
                   results>>

BandNext == ExtractBands \/ NextFile

BandSpec == BandInit /\ [][BandNext]_vars

\* equality of two quotients as numbers
SameValue(p, q) == p.num * q.den = q.num * p.den

\* the tone's row when it lies within [fmin, fmax)
ToneWithin(fmin, fmax) ==
    /\ raw.tone * raw.rate >= fmin * 2048
    /\ raw.tone * raw.rate < fmax * 2048

\* the number of rows within [fmin, fmax)
RowsWithin(fmin, fmax) ==
    Cardinality({k \in 0..1024 :
        k * raw.rate >= fmin * 2048 /\ k * raw.rate < fmax * 2048})

\* the mean over the rows within [fmin, fmax) of frame j, zero when there
\* is no such row
HalfOpenMean(fmin, fmax, j) ==
    IF RowsWithin(fmin, fmax) = 0
    THEN [num |-> 0, den |-> 1, unit |-> "one"]
    ELSE [num |-> IF ToneWithin(fmin, fmax) /\ j = 1 THEN raw.amp ELSE 0,
          den |-> RowsWithin(fmin, fmax), unit |-> "one"]

BandsAreHalfOpenMeans ==
    \A b \in Bands(variant, raw.rate) :
        /\ Len(features[b[1]]) = 2
        /\ \A j \in 1..2 :
               SameValue(features[b[1]][j], HalfOpenMean(b[2], b[3], j))

\* C18: in every extractor a band's energy at each frame is the mean
\* magnitude over exactly the rows with fmin <= f < fmax, and an all-zero
\* series of length T when there is no such row.
C18_BandsAreHalfOpenMeans ==
    pc = "extracted" => BandsAreHalfOpenMeans

\* C18, what the code does guarantee: the statement holds in
\* visualizer_modules and main.py.
C18_HalfOpenOutsideStereo ==
    (pc = "extracted" /\ variant # "L_R") => BandsAreHalfOpenMeans

\* main.py at 32 kHz, a tone on the row of exactly 2000 Hz: it counts for
\* treble and not for mid
C18_Witness ==
    /\ pc = "extracted"
    /\ variant = "main"
    /\ raw.rate = 32000
    /\ raw.tone = 128
    /\ features.mid[1].num = 0
    /\ features.treble[1].num = raw.amp
    /\ features.bass[2].num = 0

-----------------------------------------------------------------------------
(* Onset strength of visualizer_modules.  The spectrogram has two rows and *)
(* three frames of whole-number magnitudes.  A value sqrt(a / b) is kept   *)
(* as its radicand, the pair num |-> a, den |-> b with unit "sqrt".        *)

Abs(x) == IF x >= 0 THEN x ELSE 0 - x

\* np.diff(S, axis=1, prepend=S[:, :1]), one row
row_diff(row) == diff_prepend(row)

\* np.sqrt(np.mean(np.abs(diff), axis=0)): per frame, the radicand's
\* numerator (the sum over the rows) over the number of rows
onset_radicand(S) ==
    [j \in 1..3 |-> Abs(row_diff(S[1])[j]) + Abs(row_diff(S[2])[j])]

\* norm of the square roots: the largest root is that of the largest
\* radicand, and on this grid a non-zero root, at least sqrt(1/2), exceeds
\* 1e-10; sqrt(a / 2) / sqrt(m / 2) = sqrt(a / m)
norm_roots(r) ==
    IF SeqMax(r) > 0
    THEN [j \in 1..Len(r) |-> [num |-> r[j], den |-> SeqMax(r), unit |-> "sqrt"]]
    ELSE [j \in 1..Len(r) |-> [num |-> r[j], den |-> 2, unit |-> "sqrt"]]

OnsetInit ==
    /\ raw \in [S : [1..2 -> MagnitudeSeries]]
    /\ features = << >>
    /\ pc = "loaded"
    /\ variant = "modules"
    /\ futures = << >>
    /\ results = << >>
    /\ scenes = << >>
    /\ current = None
    /\ log = << >>
    /\ ret = None
    /\ queries = << >>
    /\ duration = 0
    /\ ntimes = 0
    /\ wall = Epoch
    /\ start_time = 0
    /\ last_t = 0
    /\ dt = 0
    /\ t = 0
    /\ running = FALSE
    /\ idx = 0
    /\ upd = NoUpdate
    /\ frames = 0
    /\ window = FALSE
    /\ audio = "not_started"
    /\ quit_pending = FALSE
    /\ probes = << >>
    /\ objs = << >>

\* task_rhythm: onset = norm(sqrt(mean(abs(diff))))
task_rhythm ==
    /\ pc = "loaded"
    /\ pc' = "extracted"
    /\ features' = [onset |-> norm_roots(onset_radicand(raw.S))]
    /\ UNCHANGED <<routerVars, clockVars, loopVars, variant, duration, ntimes,
                   window, audio, quit_pending, probes, objs, raw, futures,
                   results>>

OnsetNext == task_rhythm

OnsetSpec == OnsetInit /\ [][OnsetNext]_vars

\* no row of the spectrogram is larger in frame j than in frame j - 1
NoIncrease(j) == \A k \in 1..2 : raw.S[k][j] <= raw.S[k][j - 1]

\* C19: the onset strength is half-wave rectified: it is 0 at every frame
\* in which no row's magnitude exceeds its value in the previous frame, and
\* 0 at the first frame.
C19_OnsetHalfWaveRectified ==
    pc = "extracted" =>
        /\ features.onset[1].num = 0
        /\ \A j \in 2..3 : NoIncrease(j) => features.onset[j].num = 0

\* C19, what the code does guarantee: the onset strength is 0 at the first
\* frame and at exactly the frames in which no row changed; decreases count
\* like increases.
C19_OnsetFullWave ==
    pc = "extracted" =>
        /\ features.onset[1].num = 0
        /\ \A j \in 2..3 :
               features.onset[j].num = 0
                   <=> \A k \in 1..2 : raw.S[k][j] = raw.S[k][j - 1]

\* a spectrogram that only decays after its first frame was analysed
C19_Witness ==
    /\ pc = "extracted"
    /\ NoIncrease(2)
    /\ NoIncrease(3)
    /\ raw.S[1][2] < raw.S[1][1]
    /\ features.onset[1].num = 0
    /\ features.onset[3].num = 0

-----------------------------------------------------------------------------
(* The seven feature tasks in the thread pool.  A task's result stands for *)
(* the values it computes: each returned series is the pair of its name    *)
(* and the signal it was computed from.                                    *)

TaskOrder == <<"energy", "spectral", "rhythm", "chroma", "hpss", "mfcc", "zcr">>
Tasks == {TaskOrder[i] : i \in 1..Len(TaskOrder)}

\* what each task returns
TaskOutputs(name) ==
    CASE name = "energy"   -> {"bands", "rms", "spectral_flux"}
      [] name = "spectral" -> {"spectral_centroid", "spectral_rolloff",
                               "spectral_flatness", "spectral_bandwidth",
                               "spectral_contrast"}
      [] name = "rhythm"   -> {"onset", "tempo", "beat_frames", "beat_times",
                               "tempogram"}
      [] name = "chroma"   -> {"chroma"}
      [] name = "hpss"     -> {"harmonic", "percussive", "tonnetz"}
      [] name = "mfcc"     -> {"mfcc", "mfcc_delta", "mfcc_delta2"}
      [] name = "zcr"      -> {"zero_crossing_rate"}

\* a task reads y and S only and returns new arrays
TaskResult(name, r) == [f \in TaskOutputs(name) |-> <<f, r.signal>>]

\* Unpack results / return AudioFeatures(...): every field from the result
\* stored under its task's key; loudness is rms and novelty is onset
Unpack(res) ==
    [f \in (UNION {TaskOutputs(n) : n \in Tasks}) \cup {"loudness", "novelty"} |->
        IF f = "loudness" THEN res["energy"]["rms"]
        ELSE IF f = "novelty" THEN res["rhythm"]["onset"]
        ELSE res[CHOOSE n \in Tasks : f \in TaskOutputs(n)][f]]

PoolInit ==
    /\ raw \in [signal : 1..MaxRaw]
    /\ futures = [n \in Tasks |-> "pending"]
    /\ results = << >>
    /\ features = << >>
    /\ pc = "pool"
    /\ variant = "modules"
    /\ scenes = << >>
    /\ current = None
    /\ log = << >>
    /\ ret = None
    /\ queries = << >>
    /\ duration = 0
    /\ ntimes = 0
    /\ wall = Epoch
    /\ start_time = 0
    /\ last_t = 0
    /\ dt = 0
    /\ t = 0
    /\ running = FALSE
    /\ idx = 0
    /\ upd = NoUpdate
    /\ frames = 0
    /\ window = FALSE
    /\ audio = "not_started"
    /\ quit_pending = FALSE
    /\ probes = << >>
    /\ objs = << >>

\* a worker thread takes up a submitted task (seven workers: no task waits
\* for another)
TaskStart(n) ==
    /\ pc = "pool"
    /\ futures[n] = "pending"
    /\ futures' = [futures EXCEPT ![n] = "running"]
    /\ UNCHANGED <<routerVars, clockVars, loopVars, progVars, probes, objs,
                   raw, features, results>>

\* the task returns; its future holds the result
TaskFinish(n) ==
    /\ pc = "pool"
    /\ futures[n] = "running"
    /\ futures' = [futures EXCEPT ![n] = "done"]
    /\ UNCHANGED <<routerVars, clockVars, loopVars, progVars, probes, objs,
                   raw, features, results>>

\* Variant: results are keyed by arrival: the k-th result collected goes
\* under the k-th submitted task's name.
Collect_ByArrival(n) ==
    /\ pc = "pool"
    /\ futures[n] = "done"
    /\ Cardinality(DOMAIN results) < Len(TaskOrder)
    /\ futures' = [futures EXCEPT ![n] = "collected"]
    /\ results' = [k \in DOMAIN results
                          \cup {TaskOrder[Cardinality(DOMAIN results) + 1]} |->
                     IF k \in DOMAIN results THEN results[k]
                     ELSE TaskResult(n, raw)]
    /\ UNCHANGED <<routerVars, clockVars, loopVars, progVars, probes, objs,
                   raw, features>>

\* the main thread, in as_completed: results[futures[future]] =
\* future.result(), for a finished future it has not yet been handed
Collect(n) ==
    /\ pc = "pool"
    /\ futures[n] = "done"
    /\ futures' = [futures EXCEPT ![n] = "collected"]
    /\ results' = [k \in DOMAIN results \cup {n} |->
                     IF k = n THEN TaskResult(n, raw) ELSE results[k]]
    /\ UNCHANGED <<routerVars, clockVars, loopVars, progVars, probes, objs,
                   raw, features>>

\* as_completed is exhausted and the pool shut down; the results are
\* unpacked into the table
BuildTable ==
    /\ pc = "pool"
    /\ \A n \in Tasks : futures[n] = "collected"
    /\ pc' = "returned"
    /\ features' = Unpack(results)
    /\ UNCHANGED <<routerVars, clockVars, loopVars, variant, duration, ntimes,
                   window, audio, quit_pending, probes, objs, raw, futures,
                   results>>

PoolNext ==
    \/ \E n \in Tasks : TaskStart(n)
    \/ \E n \in Tasks : TaskFinish(n)
    \/ \E n \in Tasks : Collect(n)
    \/ BuildTable

PoolSpec == PoolInit /\ [][PoolNext]_vars

\* the table of a run that executes the seven tasks one after another
SequentialTable ==
    [f \in {"bands", "rms", "spectral_flux", "spectral_centroid",
            "spectral_rolloff", "spectral_flatness", "spectral_bandwidth",
            "spectral_contrast", "onset", "tempo", "beat_frames",
            "beat_times", "tempogram", "chroma", "harmonic", "percussive",
            "tonnetz", "mfcc", "mfcc_delta", "mfcc_delta2",
            "zero_crossing_rate", "loudness", "novelty"} |->
        <<IF f = "loudness" THEN "rms"
          ELSE IF f = "novelty" THEN "onset" ELSE f, raw.signal>>]

\* C20: in every interleaving each task's result is stored under its own
\* key and is never overwritten or lost, the table is built only once all
\* seven tasks have completed and been collected, and the table equals the
\* one of a sequential run.
C20_ConcurrentEqualsSequential ==
    /\ [](\A n \in DOMAIN results :
            /\ n \in Tasks
            /\ futures[n] = "collected"
            /\ DOMAIN results[n] = TaskOutputs(n)
            /\ \A f \in DOMAIN results[n] : results[n][f] = <<f, raw.signal>>)
    /\ [][\A n \in DOMAIN results :
            n \in DOMAIN results' /\ results'[n] = results[n]]_vars
    /\ [](pc = "returned" =>
            /\ \A n \in Tasks : futures[n] = "collected"
            /\ DOMAIN results = Tasks
            /\ features = SequentialTable)

\* the last-submitted task finished first and was collected while the
\* first-submitted one had not started and another was still running
C20_Witness ==
    /\ pc = "pool"
    /\ futures["zcr"] = "collected"
    /\ futures["energy"] = "pending"
    /\ futures["mfcc"] = "running"
    /\ DOMAIN results = {"zcr"}

-----------------------------------------------------------------------------
(* Chart files.  A chart file is the JSON document ChartLoader.load reads, *)
(* given by the kinds of its values:                                       *)
(*   file      "missing", "garbage" (not JSON) or "json"                   *)
(*   top       the kind of the top-level value                             *)
(*   song      the kind of data['song'], "absent" when the key is missing  *)
(*   notes     the kind of song['notes']                                   *)
(*   sections  the elements of song['notes'] when it is a list             *)
(* A scalar is a kind k and a number v.  Times and sustains are whole      *)
(* milliseconds; a lane's v counts half lanes, so that lane 4.5 is 9.      *)

Num(v) == [k |-> "num", v |-> v]
Str == [k |-> "str", v |-> 0]          \* a string that is not a number
NumStr(v) == [k |-> "numstr", v |-> v] \* a string float() parses, like "12"
Null == [k |-> "null", v |-> 0]

\* [time, lane, sustain] with a whole or half lane
NoteEntry(tm, halves, su) ==
    [k |-> "list", len |-> 3, time |-> Num(tm), lane |-> Num(halves),
     sustain |-> Num(su)]

\* a [time, lane] pair, and an entry that is a number instead of a list
ShortEntry == [NoteEntry(0, 2, 0) EXCEPT !.len = 2]
NumberEntry == [NoteEntry(0, 2, 0) EXCEPT !.k = "num", !.len = 0]

Section(must, es) ==
    [k |-> "dict", must_hit |-> must, sn |-> "list", entries |-> es]

Chart(secs) ==
    [file |-> "json", top |-> "dict", song |-> "dict", notes |-> "list",
     sections |-> secs]

\* the outcome of float(x)
float_of(x) ==
    IF x.k \in {"num", "bool", "numstr"} THEN "ok"
    ELSE IF x.k = "str" THEN "ValueError"
    ELSE "TypeError"

\* int(x) of a non-negative lane: truncation
int_of_lane(halves) == halves \div 2

\* isinstance(note_data[1], (int, float)): JSON numbers, and true / false
IsNumber(x) == x.k \in {"num", "bool"}

\* lines 160-165: lane = lane - 4 for lane >= 4
StoredLane(ln) == IF ln >= 4 THEN ln - 4 ELSE ln

\* Variant: mustHitSection is ignored.
IsPlayer_NoSwap(ln, must) == ln >= 4

\* lines 160-169: is_player, swapped by mustHitSection
IsPlayer(ln, must) ==
    IF must THEN ~(IF ln >= 4 THEN TRUE ELSE FALSE)
    ELSE (IF ln >= 4 THEN TRUE ELSE FALSE)

\* Variant: only malformed entries are skipped; events become notes.
Skipped_EventsKept(e) == e.k # "list" \/ e.len < 3 \/ ~IsNumber(e.lane)

\* lines 143-148: the entry is skipped
Skipped(e) ==
    \/ e.k # "list" \/ e.len < 3
    \/ ~IsNumber(e.lane) \/ e.lane.v < 0

\* One entry of sectionNotes: "skip", an exception, or the ChartNote.
\* Times stay in milliseconds (the source divides by 1000.0).
ParseEntry(e, must) ==
    IF Skipped(e) THEN [exc |-> "skip", notes |-> << >>]
    ELSE IF float_of(e.time) # "ok" THEN [exc |-> float_of(e.time), notes |-> << >>]
    ELSE IF float_of(e.sustain) # "ok"
         THEN [exc |-> float_of(e.sustain), notes |-> << >>]
    ELSE [exc |-> "none",
          notes |-> <<[time |-> e.time.v,
                       lane |-> StoredLane(int_of_lane(e.lane.v)),
                       sustain |-> e.sustain.v,
                       is_player |-> IsPlayer(int_of_lane(e.lane.v), must)]>>]

\* the loop over section_notes, from entry i on, appending to acc
RECURSIVE ParseEntries(_, _, _, _)
ParseEntries(es, must, i, acc) ==
    IF i > Len(es) THEN [exc |-> "none", notes |-> acc]
    ELSE LET r == ParseEntry(es[i], must)
         IN  IF r.exc \in {"skip", "none"}
             THEN ParseEntries(es, must, i + 1, acc \o r.notes)
             ELSE [exc |-> r.exc, notes |-> << >>]

\* one iteration of "for section in sections"
ParseSection(s, acc) ==
    IF s.k # "dict" THEN [exc |-> "AttributeError", notes |-> << >>]
    ELSE IF s.sn = "absent" THEN [exc |-> "none", notes |-> acc]
    ELSE IF s.sn \in {"null", "num"} THEN [exc |-> "TypeError", notes |-> << >>]
    ELSE IF s.sn = "str" THEN [exc |-> "none", notes |-> acc]
    ELSE ParseEntries(s.entries, s.must_hit, 1, acc)

RECURSIVE ParseSections(_, _, _)
ParseSections(secs, i, acc) ==
    IF i > Len(secs) THEN [exc |-> "none", notes |-> acc]
    ELSE LET r == ParseSection(secs[i], acc)
         IN  IF r.exc = "none" THEN ParseSections(secs, i + 1, r.notes)
             ELSE r

\* Variant: the notes stay in file order.
SortByTime_FileOrder(ns) == ns

\* all_notes.sort(key=lambda n: n.time): stable, by insertion
RECURSIVE SortByTime(_)
SortByTime(ns) ==
    IF Len(ns) <= 1 THEN ns
    ELSE LET front == SortByTime(SubSeq(ns, 1, Len(ns) - 1))
             last == ns[Len(ns)]
             keep == Cardinality({i \in 1..Len(front) : front[i].time <= last.time})
         IN  SubSeq(front, 1, keep) \o <<last>> \o SubSeq(front, keep + 1, Len(front))

PlayerOnly(ns) == SelectSeq(ns, LAMBDA n : n.is_player)
OpponentOnly(ns) == SelectSeq(ns, LAMBDA n : ~n.is_player)

RECURSIVE MaxEnd(_)
MaxEnd(ns) ==
    IF Len(ns) = 1 THEN ns[1].time + ns[1].sustain
    ELSE LET rest == MaxEnd(Tail(ns))
         IN  IF ns[1].time + ns[1].sustain >= rest
             THEN ns[1].time + ns[1].sustain ELSE rest

Padding == 2000        \* 2.0 seconds
FallbackDuration == 60000  \* 60.0 seconds
DefaultBpm == 120

\* Variant: the argument is tested for truth, so that 0 counts as missing.
ChartDuration_Truthy(ns, audio_duration) ==
    IF audio_duration = << >> \/ audio_duration = <<0>>
    THEN IF ns # << >> THEN MaxEnd(ns) + Padding ELSE FallbackDuration
    ELSE audio_duration[1]

\* lines 187-194; audio_duration is << >> for None and <<d>> for d
ChartDuration(ns, audio_duration) ==
    IF audio_duration = << >>
    THEN IF ns # << >> THEN MaxEnd(ns) + Padding ELSE FallbackDuration
    ELSE audio_duration[1]

ChartData(bpm, dur, ns) ==
    [bpm |-> bpm, duration |-> dur, notes |-> ns,
     player_notes |-> PlayerOnly(ns), opponent_notes |-> OpponentOnly(ns)]

NoData == ChartData(0, 0, << >>)

Raised(exc) == [exc |-> exc, data |-> NoData]

\* ChartLoader.load(chart_path, audio_duration)
load(c, audio_duration) ==
    IF c.file = "missing" THEN Raised("FileNotFoundError")
    ELSE IF c.file = "garbage" THEN Raised("ValueError")
    ELSE IF c.top # "dict" THEN Raised("AttributeError")
    ELSE IF c.song \in {"absent", "null", "empty"} THEN Raised("ValueError")
    ELSE IF c.song # "dict" THEN Raised("AttributeError")
    ELSE IF c.notes \in {"null", "num"} THEN Raised("TypeError")
    ELSE IF c.notes = "str" THEN Raised("AttributeError")
    ELSE LET r == IF c.notes = "absent" THEN [exc |-> "none", notes |-> << >>]
                  ELSE ParseSections(c.sections, 1, << >>)
         IN  IF r.exc # "none" THEN Raised(r.exc)
             ELSE [exc |-> "none",
                   data |-> ChartData(DefaultBpm,
                                ChartDuration(SortByTime(r.notes), audio_duration),
                                SortByTime(r.notes))]

\* charts with one note, of every lane from -1 to MaxLane + 1/2
LaneCharts ==
    {Chart(<<Section(must, <<NoteEntry(tm, halves, 0)>>)>>) :
        must \in BOOLEAN, tm \in {0, MaxNoteTime},
        halves \in (0 - 2)..(2 * MaxLane + 1)}

\* well-formed entries: opponent lane 1 and player lane 5, and three entries
\* that are skipped: an event (lane -1), a pair and a number
PlainEntries ==
    {NoteEntry(tm, halves, su) :
        tm \in 0..MaxNoteTime, halves \in {2, 10}, su \in 0..MaxSustain}
    \cup {NoteEntry(0, 0 - 2, 0), ShortEntry, NumberEntry}

\* two sections: up to two entries, then up to one
PlainCharts ==
    {Chart(<<Section(m1, es1), Section(m2, es2)>>) :
        m1 \in BOOLEAN, m2 \in BOOLEAN,
        es1 \in {<< >>} \cup {<<e>> : e \in PlainEntries}
                 \cup {<<e, f>> : e \in PlainEntries, f \in PlainEntries},
        es2 \in {<< >>} \cup {<<e>> : e \in PlainEntries}}

\* entries whose fields have the wrong type
OddEntries ==
    {[NoteEntry(1, 2, 0) EXCEPT !.time = x] : x \in {Str, NumStr(1), Null}}
    \cup {[NoteEntry(1, 2, 0) EXCEPT !.sustain = x] : x \in {Str, NumStr(1), Null}}
    \cup {[NoteEntry(1, 2, 0) EXCEPT !.lane = x] :
            x \in {Str, Null, [k |-> "bool", v |-> 1]}}

\* files that are missing or malformed at some level
MalformedCharts ==
    {[Chart(<< >>) EXCEPT !.file = f] : f \in {"missing", "garbage"}}
    \cup {[Chart(<< >>) EXCEPT !.top = x] : x \in {"list", "num", "str", "null"}}
    \cup {[Chart(<< >>) EXCEPT !.song = x] :
            x \in {"absent", "null", "empty", "str", "num", "list"}}
    \cup {[Chart(<< >>) EXCEPT !.notes = x] :
            x \in {"absent", "null", "num", "str"}}
    \cup {Chart(<<Section(FALSE, <<NoteEntry(0, 2, 0)>>),
                  [Section(FALSE, << >>) EXCEPT !.k = x]>>) :
            x \in {"num", "str", "list", "null"}}
    \cup {Chart(<<[Section(FALSE, << >>) EXCEPT !.sn = x]>>) :
            x \in {"absent", "null", "num", "str"}}
    \cup {Chart(<<Section(must, <<e, NoteEntry(0, 10, 0)>>)>>) :
            must \in BOOLEAN, e \in OddEntries}

ChartFiles == LaneCharts \cup PlainCharts \cup MalformedCharts

AudioDurations == {<< >>} \cup {<<d>> : d \in {0, MaxAudio}}

ChartInit ==
    /\ raw \in [chart : ChartFiles, audio_duration : AudioDurations]
    /\ features = << >>
    /\ pc = "chart"
    /\ variant = "modules"
    /\ futures = << >>
    /\ results = << >>
    /\ scenes = << >>
    /\ current = None
    /\ log = << >>
    /\ ret = None
    /\ queries = << >>
    /\ duration = 0
    /\ ntimes = 0
    /\ wall = Epoch
    /\ start_time = 0
    /\ last_t = 0
    /\ dt = 0
    /\ t = 0
    /\ running = FALSE
    /\ idx = 0
    /\ upd = NoUpdate
    /\ frames = 0
    /\ window = FALSE
    /\ audio = "not_started"
    /\ quit_pending = FALSE
    /\ probes = << >>
    /\ objs = << >>

\* chart = ChartLoader.load(path, audio_duration) returns or raises
LoadChart ==
    /\ pc = "chart"
    /\ features' = load(raw.chart, raw.audio_duration)
    /\ pc' = IF features'.exc = "none" THEN "loaded" ELSE "raised"
    /\ UNCHANGED <<routerVars, clockVars, loopVars, variant, duration, ntimes,
                   window, audio, quit_pending, probes, objs, raw, futures,
                   results>>

ChartNext == LoadChart

ChartSpec == ChartInit /\ [][ChartNext]_vars

\* the chart is one section holding one note with a whole-numbered lane
OneNoteChart ==
    /\ raw.chart \in LaneCharts
    /\ raw.chart.sections[1].entries[1].lane.v >= 0
    /\ raw.chart.sections[1].entries[1].lane.v % 2 = 0

RawLane == raw.chart.sections[1].entries[1].lane.v \div 2
MustHit == raw.chart.sections[1].must_hit

Malformed ==
    /\ raw.chart.file # "missing"
    /\ \/ raw.chart.file = "garbage"
       \/ raw.chart.top # "dict"
       \/ raw.chart.song # "dict"
       \/ raw.chart.notes \in {"null", "num", "str"}
       \/ \E i \in 1..Len(raw.chart.sections) :
            \/ raw.chart.sections[i].k # "dict"
            \/ raw.chart.sections[i].sn \in {"null", "num"}
            \/ \E j \in 1..Len(raw.chart.sections[i].entries) :
                 LET en == raw.chart.sections[i].entries[j]
                 IN  /\ ~Skipped(en)
                     /\ \/ en.time.k \in {"str", "null"}
                        \/ en.sustain.k \in {"str", "null"}

\* C22: a missing chart file raises FileNotFoundError, every malformed chart
\* raises ValueError and nothing else, and no ChartData is returned in
\* either case.
C22_NotFoundOrInvalidFormat ==
    pc # "chart" =>
        /\ raw.chart.file = "missing" => features.exc = "FileNotFoundError"
        /\ Malformed => features.exc = "ValueError"
        /\ features.exc # "none" => features.data = NoData

\* C22, what the code does guarantee: a missing file raises
\* FileNotFoundError; text that is not JSON, a missing, null or empty song
\* and a time or sustain string that is not a number raise ValueError; other
\* malformed charts raise AttributeError or TypeError; nothing is returned
\* when load raises.
C22_FailureKinds ==
    pc # "chart" =>
        /\ raw.chart.file = "missing" <=> features.exc = "FileNotFoundError"
        /\ (raw.chart.file = "garbage"
              \/ (raw.chart.file = "json" /\ raw.chart.top = "dict"
                    /\ raw.chart.song \in {"absent", "null", "empty"}))
              => features.exc = "ValueError"
        /\ Malformed => features.exc \in {"ValueError", "AttributeError", "TypeError"}
        /\ features.exc # "none" => (pc = "raised" /\ features.data = NoData)

\* a chart without a song, and one whose first note has a word for its time
C22_Witness ==
    /\ pc = "raised"
    /\ features.exc = "ValueError"
    /\ \/ raw.chart.song = "absent"
       \/ /\ raw.chart.song = "dict"
          /\ raw.chart.notes = "list"
          /\ Len(raw.chart.sections) = 1
          /\ raw.chart.sections[1].entries[1].time.k = "str"

\* an entry the loader is to pass over: not a list of at least three
\* elements, or a lane that is not a number (JSON true and false are numbers
\* to Python) or is negative
PassedOver(en) ==
    \/ en.k # "list"
    \/ en.len < 3
    \/ en.lane.k \notin {"num", "bool"}
    \/ en.lane.v < 0

\* the chart file without the entries that are passed over
Kept(c) ==
    [c EXCEPT !.sections =
        [i \in 1..Len(c.sections) |->
            [c.sections[i] EXCEPT !.entries =
                SelectSeq(c.sections[i].entries, LAMBDA en : ~PassedOver(en))]]]

RECURSIVE EntryCount(_)
EntryCount(secs) ==
    IF secs = << >> THEN 0
    ELSE Len(secs[1].entries) + EntryCount(Tail(secs))

\* C23: entries with a non-numeric or negative lane, and entries that are
\* not lists of at least 3 elements, are skipped without raising and
\* without affecting the other notes; every other entry yields exactly one
\* note, so len(notes) is the number of entries not skipped.
C23_SkipsEventsAndShortEntries ==
    (pc # "chart" /\ raw.chart.file = "json" /\ ~Malformed) =>
        /\ features.exc = "none"
        /\ Len(features.data.notes) = EntryCount(Kept(raw.chart).sections)
        /\ features.data = load(Kept(raw.chart), raw.audio_duration).data

\* an event, then a note, then in the next section a pair: one note loaded
C23_Witness ==
    /\ pc = "loaded"
    /\ Len(raw.chart.sections) = 2
    /\ Len(raw.chart.sections[1].entries) = 2
    /\ raw.chart.sections[1].entries[1].lane.v < 0
    /\ ~PassedOver(raw.chart.sections[1].entries[2])
    /\ raw.chart.sections[2].entries = <<[k |-> "list", len |-> 2,
                                          time |-> [k |-> "num", v |-> 0],
                                          lane |-> [k |-> "num", v |-> 2],
                                          sustain |-> [k |-> "num", v |-> 0]]>>
    /\ Len(features.data.notes) = 1

NonDecreasing(ns) == \A i \in 1..(Len(ns) - 1) : ns[i].time <= ns[i + 1].time

\* how often note n occurs in ns
Occurrences(ns, n) == Cardinality({i \in 1..Len(ns) : ns[i] = n})

\* C24: in every ChartData that load returns, notes is sorted by
\* non-decreasing time whatever the order of the sections, player_notes and
\* opponent_notes are sorted too, and every note is in exactly one of them:
\* the player notes are those with is_player, the opponent notes the rest.
C24_SortedAndPartitioned ==
    pc = "loaded" =>
        /\ NonDecreasing(features.data.notes)
        /\ NonDecreasing(features.data.player_notes)
        /\ NonDecreasing(features.data.opponent_notes)
        /\ \A i \in 1..Len(features.data.player_notes) :
               features.data.player_notes[i].is_player
        /\ \A i \in 1..Len(features.data.opponent_notes) :
               ~features.data.opponent_notes[i].is_player
        /\ \A i \in 1..Len(features.data.notes) :
               LET n == features.data.notes[i]
               IN  Occurrences(features.data.player_notes, n)
                     + Occurrences(features.data.opponent_notes, n)
                       = Occurrences(features.data.notes, n)
        /\ Len(features.data.player_notes) + Len(features.data.opponent_notes)
             = Len(features.data.notes)

\* the second section's note is earlier than the first section's notes, and
\* both sides have notes
C24_Witness ==
    /\ pc = "loaded"
    /\ Len(raw.chart.sections) = 2
    /\ Len(raw.chart.sections[1].entries) = 2
    /\ Len(raw.chart.sections[2].entries) = 1
    /\ Len(features.data.notes) = 3
    /\ raw.chart.sections[2].entries[1].time.v < raw.chart.sections[1].entries[1].time.v
    /\ raw.chart.sections[1].entries[2].time.v < raw.chart.sections[1].entries[1].time.v
    /\ features.data.player_notes # << >>
    /\ features.data.opponent_notes # << >>

\* C25: duration is the caller's audio_duration whenever one is supplied,
\* 0 included; otherwise the largest time + sustain of the notes plus 2.0
\* seconds when there is a note; otherwise 60.0 seconds.
C25_DurationRule ==
    pc = "loaded" =>
        /\ raw.audio_duration # << >>
             => features.data.duration = raw.audio_duration[1]
        /\ (raw.audio_duration = << >> /\ features.data.notes # << >>)
             => /\ \E i \in 1..Len(features.data.notes) :
                     features.data.duration =
                        features.data.notes[i].time
                          + features.data.notes[i].sustain + 2000
                /\ \A i \in 1..Len(features.data.notes) :
                     features.data.duration >=
                        features.data.notes[i].time
                          + features.data.notes[i].sustain + 2000
        /\ (raw.audio_duration = << >> /\ features.data.notes = << >>)
             => features.data.duration = 60000

\* a chart with notes loaded with audio_duration = 0
C25_Witness ==
    /\ pc = "loaded"
    /\ raw.audio_duration = <<0>>
    /\ Len(features.data.notes) = 2
    /\ features.data.notes[2].sustain > 0
    /\ features.data.duration = 0

-----------------------------------------------------------------------------
(* ChartData queries.  features is the ChartData object, results the last  *)
(* call and what it returned.  Times are whole milliseconds; the bounds of *)
(* a range are compared doubled, so that time - window / 2 is exact.       *)

\* Variant: create_empty ignores its duration argument.
create_empty_FixedDuration(bpm, dur) ==
    [bpm |-> bpm, duration |-> FallbackDuration, notes |-> << >>,
     player_notes |-> << >>, opponent_notes |-> << >>]

\* ChartLoader.create_empty(bpm, duration)
create_empty(bpm, dur) ==
    [bpm |-> bpm, duration |-> dur, notes |-> << >>,
     player_notes |-> << >>, opponent_notes |-> << >>]

\* notes = self.player_notes if player_only else self.notes
Selected(cd, player_only) == IF player_only THEN cd.player_notes ELSE cd.notes

\* Variant: the end of the range is excluded.
InRange_HalfOpen(ns, lo2, hi2) ==
    SelectSeq(ns, LAMBDA n : lo2 <= 2 * n.time /\ 2 * n.time < hi2)

\* [note for note in notes if start_time <= note.time <= end_time], the
\* bounds given doubled
InRange(ns, lo2, hi2) ==
    SelectSeq(ns, LAMBDA n : lo2 <= 2 * n.time /\ 2 * n.time <= hi2)

get_notes_in_range(cd, start, end, player_only) ==
    InRange(Selected(cd, player_only), 2 * start, 2 * end)

\* len(notes_in_window) / window, the window being time -/+ window / 2
get_note_density(cd, tm, win, player_only) ==
    Quot(Len(InRange(Selected(cd, player_only), 2 * tm - win, 2 * tm + win)),
         win)

is_note_at_time(cd, tm, ln, threshold, player_only) ==
    \E i \in 1..Len(Selected(cd, player_only)) :
        /\ Selected(cd, player_only)[i].lane = ln
        /\ Abs(Selected(cd, player_only)[i].time - tm) < threshold

\* two-note charts, and the arguments of create_empty
QueryCharts ==
    {Chart(<<Section(must, <<NoteEntry(t1, h1, 0), NoteEntry(t2, h2, 0)>>)>>) :
        must \in BOOLEAN, t1 \in 0..MaxNoteTime, t2 \in 0..MaxNoteTime,
        h1 \in {2, 10}, h2 \in {2, 10}}

QueryInit ==
    /\ \/ /\ raw \in [kind : {"loaded"}, chart : QueryCharts]
          /\ features = load(raw.chart, << >>).data
       \/ /\ raw \in [kind : {"empty"}, bpm : {DefaultBpm, 174},
                      duration : {0, FallbackDuration}]
          /\ features = create_empty(raw.bpm, raw.duration)
    /\ results = << >>
    /\ pc = "ready"
    /\ variant = "modules"
    /\ futures = << >>
    /\ scenes = << >>
    /\ current = None
    /\ log = << >>
    /\ ret = None
    /\ queries = << >>
    /\ duration = 0
    /\ ntimes = 0
    /\ wall = Epoch
    /\ start_time = 0
    /\ last_t = 0
    /\ dt = 0
    /\ t = 0
    /\ running = FALSE
    /\ idx = 0
    /\ upd = NoUpdate
    /\ frames = 0
    /\ window = FALSE
    /\ audio = "not_started"
    /\ quit_pending = FALSE
    /\ probes = << >>
    /\ objs = << >>

NoAnswer == [notes |-> << >>, density |-> Quot(0, 1), found |-> FALSE]

\* a scene calls chart.get_notes_in_range(start, end, player_only)
CallRange(start, end, player_only) ==
    /\ pc = "ready"
    /\ results' = [fn |-> "range", args |-> <<start, end>>,
                   player_only |-> player_only,
                   answer |-> [NoAnswer EXCEPT !.notes =
                        get_notes_in_range(features, start, end, player_only)]]
    /\ UNCHANGED <<routerVars, clockVars, loopVars, progVars, probes, objs,
                   raw, features, futures>>

\* a scene calls chart.get_note_density(time, window, player_only)
CallDensity(tm, win, player_only) ==
    /\ pc = "ready"
    /\ results' = [fn |-> "density", args |-> <<tm, win>>,
                   player_only |-> player_only,
                   answer |-> [NoAnswer EXCEPT !.density =
                        get_note_density(features, tm, win, player_only)]]
    /\ UNCHANGED <<routerVars, clockVars, loopVars, progVars, probes, objs,
                   raw, features, futures>>

\* a scene calls chart.is_note_at_time(time, lane, threshold, player_only)
CallNoteAt(tm, ln, threshold, player_only) ==
    /\ pc = "ready"
    /\ results' = [fn |-> "at", args |-> <<tm, ln, threshold>>,
                   player_only |-> player_only,
                   answer |-> [NoAnswer EXCEPT !.found =
                        is_note_at_time(features, tm, ln, threshold, player_only)]]
    /\ UNCHANGED <<routerVars, clockVars, loopVars, progVars, probes, objs,
                   raw, features, futures>>

QueryNext ==
    \/ \E start \in 0..MaxNoteTime, end \in 0..MaxNoteTime, po \in BOOLEAN :
           CallRange(start, end, po)
    \/ \E tm \in 0..MaxNoteTime, win \in 1..MaxWindow, po \in BOOLEAN :
           CallDensity(tm, win, po)
    \/ \E tm \in 0..MaxNoteTime, ln \in 0..3, th \in 1..MaxThreshold,
          po \in BOOLEAN : CallNoteAt(tm, ln, th, po)

QuerySpec == QueryInit /\ [][QueryNext]_vars

\* C26: create_empty(bpm, duration) has no notes in any of its three lists
\* and the given bpm and duration (duration 60 for create_empty(174, 60)),
\* and every query on it answers empty: no notes in any range, density 0
\* for every window > 0, no note at any time and lane.
C26_EmptyChart ==
    raw.kind = "empty" =>
        /\ features.notes = << >>
        /\ features.player_notes = << >>
        /\ features.opponent_notes = << >>
        /\ features.bpm = raw.bpm
        /\ features.duration = raw.duration
        /\ (raw.bpm = 174 /\ raw.duration = 60000) => features.duration = 60000
        /\ results # << >> =>
              /\ results.answer.notes = << >>
              /\ results.answer.density.num = 0
              /\ results.answer.found = FALSE

\* the density of create_empty(174, 0) was asked for
C26_Witness ==
    /\ raw.kind = "empty"
    /\ raw.bpm = 174
    /\ raw.duration = 0
    /\ features.duration = 0
    /\ results # << >>
    /\ results.fn = "density"
    /\ results.answer.density.den > 0

\* the notes of the list a call selects
ListOf(po) == IF po THEN features.player_notes ELSE features.notes

\* C27: the three queries are pure: no call changes notes, player_notes,
\* opponent_notes or a note, and the answer is a function of the arguments
\* and the chart; get_notes_in_range(start, end) answers, in time order,
\* exactly the notes of the selected list with start <= time <= end.
C27_QueriesArePure ==
    /\ [][features' = features]_vars
    /\ []((results # << >> /\ results.fn = "range") =>
            /\ results.answer.notes =
                 SelectSeq(ListOf(results.player_only),
                           LAMBDA n : /\ results.args[1] <= n.time
                                      /\ n.time <= results.args[2])
            /\ \A i \in 1..(Len(results.answer.notes) - 1) :
                 results.answer.notes[i].time <= results.answer.notes[i + 1].time)
    /\ []((results # << >> /\ results.fn = "density") =>
            /\ results.answer.density.den = results.args[2]
            /\ results.answer.density.num =
                 Cardinality({i \in 1..Len(ListOf(results.player_only)) :
                    /\ 2 * results.args[1] - results.args[2]
                         <= 2 * ListOf(results.player_only)[i].time
                    /\ 2 * ListOf(results.player_only)[i].time
                         <= 2 * results.args[1] + results.args[2]}))
    /\ []((results # << >> /\ results.fn = "at") =>
            (results.answer.found <=>
                \E i \in 1..Len(ListOf(results.player_only)) :
                    /\ ListOf(results.player_only)[i].lane = results.args[2]
                    /\ ListOf(results.player_only)[i].time - results.args[1]
                         < results.args[3]
                    /\ results.args[1] - ListOf(results.player_only)[i].time
                         < results.args[3]))

\* a range that ends exactly on the second note's time returned both notes
C27_Witness ==
    /\ raw.kind = "loaded"
    /\ results # << >>
    /\ results.fn = "range"
    /\ ~results.player_only
    /\ Len(features.notes) = 2
    /\ features.notes[1].time < features.notes[2].time
    /\ results.args = <<features.notes[1].time, features.notes[2].time>>
    /\ results.answer.notes = features.notes

-----------------------------------------------------------------------------
(* The render loop and the scene lifecycle *)

\* enter() has been called on s and exit() has not been called since
Active(s) == Len(CallsOn(s)) % 2 = 1

\* C28: in every render tick of main.py and L_R.py the scene that gets
\* update() and draw() is the router's active scene, one that has been
\* entered and not exited since, also when no timeline entry contains t on
\* the first tick.
C28_UpdatedSceneIsActive ==
    upd # NoUpdate => (upd.scene = current /\ Active(upd.scene))

\* C28, what the code does guarantee: the updated scene is the active scene
\* except in main.py when the router has not activated any scene yet, where
\* the first entry's scene is updated without having been entered; L_R.py
\* never updates a scene that is not active (it stops on the missing scene).
C28_ActiveOrFallback ==
    upd # NoUpdate =>
        \/ upd.scene = current /\ Active(upd.scene)
        \/ /\ variant = "main"
           /\ current = None
           /\ log = << >>
           /\ upd.scene = scenes[1].scene
           /\ t >= duration

\* L_R.py has updated both scenes in turn
C28_Witness ==
    /\ variant = "L_R"
    /\ pc = "loop"
    /\ upd.scene = "brain"
    /\ current = "brain"
    /\ Active("brain")
    /\ ~Active("stripes")
    /\ Len(CallsOn("stripes")) = 2

\* C30: every enter() on a scene is eventually followed by an exit() on
\* that scene before the program ends: a scene that is active does not stay
\* so for ever.
C30_EveryEnterGetsExit ==
    \A s \in Scenes : Active(s) ~> ~Active(s)

\* C30, what the code does guarantee: a scene gets its exit() when another
\* scene replaces it, so only the router's current scene is ever without
\* one; leaving the loop calls no hook, and the scene active at that moment
\* stays entered.
C30_OnlyCurrentLacksExit ==
    /\ [](\A s \in Scenes : Active(s) <=> s = current)
    /\ [][pc' \in {"done", "crashed"} /\ pc = "loop" /\ ~running
            => (log' = log /\ current' = current)]_vars
    /\ []((pc = "done" /\ current # None) => [](Active(current)))

\* the program has ended with brain entered and stripes exited
C30_Witness ==
    /\ pc = "done"
    /\ current = "brain"
    /\ Active("brain")
    /\ log = << <<"enter", "stripes">>, <<"exit", "stripes">>,
                <<"enter", "brain">> >>

\* C29: every note that load produces has a lane in 0..3, whatever numeric
\* non-negative raw lane the file has, lanes of 8 or more and fractional
\* lanes included.
C29_LaneWithinFour ==
    pc = "loaded" =>
        \A i \in 1..Len(features.data.notes) :
            features.data.notes[i].lane \in 0..3

\* C29, what the code does guarantee: raw lanes below 8, whole or
\* fractional, are stored as lanes 0..3; a raw lane of 8 or more is stored
\* as its whole part minus 4, which is 4 or more.
C29_LaneWithinFourBelowEight ==
    (pc = "loaded" /\ raw.chart \in LaneCharts
        /\ raw.chart.sections[1].entries[1].lane.v >= 0) =>
            LET halves == raw.chart.sections[1].entries[1].lane.v
            IN  /\ Len(features.data.notes) = 1
                /\ halves < 16 => features.data.notes[1].lane \in 0..3
                /\ halves >= 16 =>
                     /\ features.data.notes[1].lane = (halves \div 2) - 4
                     /\ features.data.notes[1].lane >= 4

\* raw lane 7.5 was stored as lane 3
C29_Witness ==
    /\ pc = "loaded"
    /\ raw.chart \in LaneCharts
    /\ raw.chart.sections[1].entries[1].lane.v = 15
    /\ features.data.notes[1].lane = 3
    /\ features.data.notes[1].is_player # raw.chart.sections[1].must_hit

=============================================================================
